---- MODULE Spec2Model ----
(***************************************************************************)
(* The dispute synchronization engine of kleros-api: the store gateway     *)
(* (src/src/utils/StoreProviderWrapper.js) with its ordered write queue,   *)
(* and the ledger event handlers of src/src/resources/Disputes.js that     *)
(* fold ledger events into store records.                                  *)
(***************************************************************************)
EXTENDS Integers, Sequences, FiniteSets, TLC

(***************************************************************************)
(* Bounds of the model.                                                    *)
(***************************************************************************)
\* operations ever enqueued on the wrapper's queue
MaxOps == 3
\* events ever handed to a handler (first deliveries and replays)
MaxDeliveries == 3
\* dispute ids run 0..MaxDisputeId
MaxDisputeId == 0
\* the ledger's sessions run 1..MaxSession
MaxSession == 3
\* appeals of one dispute
MaxAppeals == 2
\* deliveries of a DisputeCreation or NewPeriod event already delivered
MaxRedeliveries == 1

(***************************************************************************)
(* Optional values: JavaScript null / undefined / absent field is None,    *)
(* a present value v is Some(v).                                           *)
(***************************************************************************)
None == <<>>
Some(x) == <<x>>
Val(o) == o[1]

(***************************************************************************)
(* Addresses.  Juror is the account the handlers are bound to, Other is    *)
(* any other ledger account, PartyA the party A of the arbitrable          *)
(* contract.  Kleros is the address of the bound arbitrator contract,      *)
(* OtherArb one of another arbitrator.                                     *)
(***************************************************************************)
Juror == "juror"
Other == "other"
PartyA == "partyA"
Kleros == "K1"
OtherArb == "K2"
Arbitrators == {Kleros, OtherArb}
DisputeIds == 0..MaxDisputeId
Keys == Arbitrators \X DisputeIds
ProfileOwners == {Juror, PartyA}

\* the token amounts of the TokenShift events the ledger emits, in emission order
Amounts == <<10, -3, 5>>
AmountOf(n) == Amounts[((n - 1) % Len(Amounts)) + 1]

VARIABLES
  token,        \* this._token is set (StoreProviderWrapper)
  profiles,     \* the store: user address -> None | Some(user profile)
  ops,          \* this._storeQueue: every operation enqueued so far, in order
  commits,      \* the store's log: indices of ops in the order their write committed
  events,       \* the ledger's event log
  calls,        \* handler invocations, in delivery order
  profiles0,    \* the store as it was when the wrapper was constructed
  ledger,       \* the arbitrator contract: period, session, block, disputes
  disputes,     \* the store: (arbitrator, disputeId) -> None | Some(dispute record)
  view,         \* the last call of getDataForDispute and its outcome, None before
  scan          \* the call of getDisputeContractsForJuror, None before

vars == <<token, profiles, ops, commits, events, calls, profiles0, ledger, disputes,
          view, scan>>

(***************************************************************************)
(* Store records.                                                          *)
(***************************************************************************)
\* a dispute profile inside a user profile; `{}` is the profile with no field set
EmptyDisputeProfile == [netPNK |-> None, hasRuled |-> None, appealDraws |-> None]
\* the profile the store creates for POST /{address} with body {address}
\* (contracts: the entry of the arbitrable contract, None when the profile has none)
NewProfile == [disputes |-> [k \in Keys |-> None], session |-> None, contracts |-> None]

(***************************************************************************)
(* StoreProviderWrapper: requests.                                         *)
(***************************************************************************)
\* _makeRequest refusing every request when no token is set
MakeRequestThrowsAnyVerb(verb, tok) == ~tok

\* _makeRequest refuses a non-GET request when no token is set
MakeRequestThrows(verb, tok) == verb # "GET" /\ ~tok

\* getUserProfile: the body of GET /{address}
getUserProfile(store, address) == store[address]

\* the supplied fields alone, the current record dropped
ShallowMergeParamsOnly(current, params) == [f \in DOMAIN current |-> params[f]]

\* { ...current, ...params }: supplied fields win, the others are kept
ShallowMerge(current, params) ==
  [f \in DOMAIN current |-> IF params[f] # None THEN params[f] ELSE current[f]]

\* the record _.filter(userProfile.disputes, ...)[0] || {} of updateDisputeProfile
CurrentDisputeProfile(userProfile, key) ==
  IF userProfile.disputes[key] = None THEN EmptyDisputeProfile
  ELSE Val(userProfile.disputes[key])

\* getBodyFn of updateDisputeProfile: rejects (TypeError) when the user has no
\* profile, else the merged dispute profile
DisputeProfileBody(store, address, key, params) ==
  LET userProfile == getUserProfile(store, address)
  IN  IF userProfile = None THEN None
      ELSE Some(ShallowMerge(CurrentDisputeProfile(Val(userProfile), key), params))

\* getBodyFn of updateUserProfile: (profile || {}) merged with params
UserProfileBody(store, address, params) ==
  LET userProfile == getUserProfile(store, address)
      current == IF userProfile = None THEN NewProfile ELSE Val(userProfile)
  IN  Some(ShallowMerge(current, params))

\* a dispute record with no field set
EmptyDispute ==
  [appealCreatedAt |-> None, appealRuledAt |-> None, appealDeadlines |-> None,
   status |-> None]

\* getDispute(arbitratorAddress, disputeId): the dispute record, null when the
\* store has none
getDispute(dstore, key) == dstore[key]

\* the supplied arrays appended to the arrays of the current record
DisputeBodyAppending(dstore, key, params) ==
  LET current == IF getDispute(dstore, key) = None THEN EmptyDispute
                 ELSE Val(getDispute(dstore, key))
  IN  Some([f \in DOMAIN current |->
              IF f = "status" \/ params[f] = None THEN current[f]
              ELSE IF current[f] = None THEN params[f]
              ELSE Some(Val(current[f]) \o Val(params[f]))])

\* updateDispute's getBodyFn: the current record, or {} when there is none,
\* with the supplied fields over it
DisputeBody(dstore, key, params) ==
  LET current == IF getDispute(dstore, key) = None THEN EmptyDispute
                 ELSE Val(getDispute(dstore, key))
  IN  Some(ShallowMerge(current, params))

\* a contract entry with no field set
EmptyContract == [description |-> None, email |-> None]

\* getBodyFn of updateContract: getContractByAddress rejects when the user has
\* no profile, else (contract || {}) merged with params
ContractBody(store, address, params) ==
  LET userProfile == getUserProfile(store, address)
  IN  IF userProfile = None THEN None
      ELSE LET currentContractData == Val(userProfile).contracts
               current == IF currentContractData = None THEN EmptyContract
                          ELSE Val(currentContractData)
           IN  Some(ShallowMerge(current, params))

\* what getBodyFn of operation op resolves to against the store, None if it rejects
BodyOf(store, dstore, op) ==
  CASE op.kind = "updateDisputeProfile" ->
         DisputeProfileBody(store, op.address, op.key, op.params)
    [] op.kind = "updateUserProfile" ->
         UserProfileBody(store, op.address, op.params)
    [] op.kind = "updateDispute" ->
         DisputeBody(dstore, op.key, op.params)
    [] op.kind = "updateContract" ->
         ContractBody(store, op.address, op.params)
    [] op.kind \in {"addEvidenceContract", "newNotification"} ->
         Some(op.params)

\* the errors of the gateway
PROFILE_NOT_FOUND == "ProfileNotFound"
REQUEST_FAILED == "RequestFailed"
INVALID_AUTH_TOKEN == "InvalidAuthToken"
NO_AUTH_TOKEN == "No auth token set"
TypeError == "TypeError"

\* the error getBodyFn of operation op rejects with: getContractByAddress throws
\* PROFILE_NOT_FOUND, updateDisputeProfile reads userProfile.disputes of null
BodyError(op) ==
  IF op.kind = "updateContract" THEN PROFILE_NOT_FOUND ELSE TypeError

\* the store's handling of the POST of the dispute record of operation op
DisputePost(dstore, op) == [dstore EXCEPT ![op.key] = op.body]

\* the store's handling of the POST of operation op with its body
StorePost(store, op) ==
  CASE op.kind = "updateDisputeProfile" ->
         [store EXCEPT ![op.address] =
            Some([Val(@) EXCEPT !.disputes[op.key] = op.body])]
    [] op.kind = "updateUserProfile" ->
         [store EXCEPT ![op.address] = op.body]
    [] op.kind = "updateContract" ->
         [store EXCEPT ![op.address] = Some([Val(@) EXCEPT !.contracts = op.body])]
    [] op.kind \in {"addEvidenceContract", "newNotification"} ->
         store

(***************************************************************************)
(* The queue.  An operation is queued, then executing (reading: its        *)
(* getBodyFn is running; writing / requesting: its request is in flight),  *)
(* then settled (resolved or rejected).                                    *)
(***************************************************************************)
Settled(op) == op.phase \in {"resolved", "rejected"}
Executing(op) == op.phase \in {"reading", "writing", "requesting"}

\* PromiseQueue.fetch: the function of an operation is called once every
\* operation enqueued before it has settled, whether resolved or rejected
QueueReady(q, i) == \A j \in 1..(i - 1) : Settled(q[j])

\* queueWriteRequest without the queue: getBodyFn is called at once
QueueWriteRequestUnqueued(kind, address, key, params) ==
  [kind |-> kind, address |-> address, key |-> key, params |-> params,
   phase |-> "reading", body |-> None, status |-> None, error |-> None]

\* queueWriteRequest: the operation is handed to the queue
QueueWriteRequest(kind, address, key, params) ==
  [kind |-> kind, address |-> address, key |-> key, params |-> params,
   phase |-> "queued", body |-> None, status |-> None, error |-> None]

\* queueReadRequest without the queue: the GET is sent at once
QueueReadRequestUnqueued(address) ==
  [kind |-> "read", address |-> address, key |-> None, params |-> None,
   phase |-> "requesting", body |-> None, status |-> None, error |-> None]

\* queueReadRequest: a GET of the user's profile handed to the queue
QueueReadRequest(address) ==
  [kind |-> "read", address |-> address, key |-> None, params |-> None,
   phase |-> "queued", body |-> None, status |-> None, error |-> None]

\* a handler invocation or a caller's call, from its start
NewCall(handler, ev) ==
  [handler |-> handler, ev |-> ev, pc |-> "start", awaiting |-> 0, issued |-> {},
   wrote |-> {}, error |-> None, result |-> None, newPeriod |-> None]

\* `await promise` without the await: the rejection is never seen
AwaitOutcomeDropped(op) == "done"

\* `await promise` of a settled operation: the caller goes on when it resolved
\* and throws when it rejected
AwaitOutcome(op) == IF op.phase = "resolved" THEN "done" ELSE "threw"

\* the value of a call that returns a profile as getUserProfile gives it
ProfileResult(userProfile) ==
  [shape |-> "profile", body |-> userProfile, status |-> None]

\* the value of a call that returns the object _makeRequest resolves with
ResponseResult(op) == [shape |-> "response", body |-> op.body, status |-> op.status]

\* updateContract after its await: if (httpResponse.status !== 201) throw
\* REQUEST_FAILED
ContractOutcome(op) ==
  IF op.phase = "resolved" /\ op.status = Some(201) THEN "done" ELSE "threw"

\* a caller that awaits operation op goes on as it settles: it throws the
\* operation's error when it rejected; updateContract checks the status,
\* setUpUserProfile returns what the queued read resolved with, and
\* getDisputesForUser goes on to its next store update
Resumed(call, op) ==
  LET outcome == IF call.pc = "awaitContract" THEN ContractOutcome(op)
                 ELSE IF call.pc = "awaitUpdate" /\ AwaitOutcome(op) = "done"
                 THEN "update"
                 ELSE AwaitOutcome(op)
  IN  [call EXCEPT
         !.pc = outcome,
         !.error = IF outcome # "threw" THEN None
                   ELSE IF op.phase = "rejected" THEN op.error
                   ELSE Some(REQUEST_FAILED),
         !.result = IF outcome = "done" /\ call.pc = "awaitProfile"
                    THEN Some(ResponseResult(op)) ELSE None]

\* the callers that await operation i go on as it settles
Resume(cs, i, op) ==
  [c \in 1..Len(cs) |->
     IF cs[c].awaiting = i
        /\ cs[c].pc \in {"awaitWrite", "awaitProfile", "awaitContract", "awaitUpdate"}
     THEN Resumed(cs[c], op)
     ELSE cs[c]]

\* the queue calls the function of operation i: getBodyFn() of a write,
\* _makeRequest('GET', uri) of a read
QueueStart(i) ==
  /\ i \in 1..Len(ops)
  /\ ops[i].phase = "queued"
  /\ QueueReady(ops, i)
  /\ IF ops[i].kind # "read"
     THEN /\ ops' = [ops EXCEPT ![i].phase = "reading"]
          /\ UNCHANGED calls
     ELSE IF MakeRequestThrows("GET", token)
     THEN /\ ops' = [ops EXCEPT ![i].phase = "rejected",
                                ![i].error = Some(NO_AUTH_TOKEN)]
          /\ calls' = Resume(calls, i, ops'[i])
     ELSE /\ ops' = [ops EXCEPT ![i].phase = "requesting"]
          /\ UNCHANGED calls
  /\ UNCHANGED <<view, scan, token, profiles, commits, events, profiles0, ledger, disputes>>

\* getBodyFn of operation i answers and .then(result => _makeRequest(...)) runs
QueueBody(i) ==
  /\ i \in 1..Len(ops)
  /\ ops[i].phase = "reading"
  /\ LET body == BodyOf(profiles, disputes, ops[i])
     IN  IF body = None \/ MakeRequestThrows("POST", token)
         THEN /\ ops' = [ops EXCEPT ![i].phase = "rejected",
                                    ![i].error =
                                      IF body = None THEN Some(BodyError(ops[i]))
                                      ELSE Some(NO_AUTH_TOKEN)]
              /\ calls' = Resume(calls, i, ops'[i])
         ELSE /\ ops' = [ops EXCEPT ![i].phase = "writing", ![i].body = body]
              /\ UNCHANGED calls
  /\ UNCHANGED <<view, scan, token, profiles, commits, events, profiles0, ledger, disputes>>

\* the store answers the request of operation i
QueueRespond(i) ==
  /\ i \in 1..Len(ops)
  /\ \/ /\ ops[i].phase = "writing"
        /\ IF ops[i].kind = "updateDispute"
           THEN disputes' = DisputePost(disputes, ops[i]) /\ UNCHANGED profiles
           ELSE profiles' = StorePost(profiles, ops[i]) /\ UNCHANGED disputes
        /\ commits' = Append(commits, i)
        /\ ops' = [ops EXCEPT ![i].phase = "resolved", ![i].status = Some(201)]
     \/ /\ ops[i].phase = "requesting"
        /\ ops' = [ops EXCEPT ![i].phase = "resolved", ![i].status = Some(200),
                              ![i].body = getUserProfile(profiles, ops[i].address)]
        /\ UNCHANGED <<profiles, commits, disputes>>
  /\ calls' = Resume(calls, i, ops'[i])
  /\ UNCHANGED <<view, scan, token, events, profiles0, ledger>>

\* the statuses of the responses by which the store refuses a request
FailureStatuses == {401, 500}

\* the store refuses the POST of operation i with the given status: nothing is
\* written; _makeRequest rejects with INVALID_AUTH_TOKEN on 401 and resolves
\* with {body, status} on any other status
QueueRespondFailure(i, status) ==
  /\ i \in 1..Len(ops)
  /\ ops[i].phase = "writing"
  /\ ops' = IF status = 401
            THEN [ops EXCEPT ![i].phase = "rejected", ![i].status = Some(status),
                             ![i].error = Some(INVALID_AUTH_TOKEN)]
            ELSE [ops EXCEPT ![i].phase = "resolved", ![i].status = Some(status)]
  /\ calls' = Resume(calls, i, ops'[i])
  /\ UNCHANGED <<view, scan, token, profiles, commits, events, profiles0, ledger, disputes>>

\* the store answers the request of operation i with status 401 and a body
\* that is no JSON: body stays null, reading body.error throws inside the
\* onreadystatechange callback, and neither reject nor resolve is called: the
\* request is over and the promise of the operation stays pending
QueueRespondUnparsable(i) ==
  /\ i \in 1..Len(ops)
  /\ ops[i].phase \in {"writing", "requesting"}
  /\ ops' = [ops EXCEPT ![i].phase = "answered", ![i].status = Some(401)]
  /\ UNCHANGED <<view, scan, token, profiles, commits, events, calls, profiles0, ledger,
                 disputes>>

\* setAuthToken
SetAuthToken ==
  /\ ~token
  /\ token' = TRUE
  /\ UNCHANGED <<view, scan, profiles, ops, commits, events, calls, profiles0, ledger, disputes>>

(***************************************************************************)
(* Callers of the gateway outside the event handlers.                      *)
(***************************************************************************)
\* the fields a caller marks on a dispute profile (it has ruled)
RuledParams == [netPNK |-> None, hasRuled |-> Some(TRUE), appealDraws |-> None]
\* params = {} of updateUserProfile
NoProfileParams == [disputes |-> None, session |-> None, contracts |-> None]

\* the fields a caller sets on a dispute profile (a net amount of tokens)
NetParams == [netPNK |-> Some(AmountOf(1)), hasRuled |-> None, appealDraws |-> None]

\* a caller's await updateDisputeProfile(account, arbitratorAddress, disputeId, params)
ApiUpdateDisputeProfile(key, params) ==
  /\ Len(ops) < MaxOps
  /\ ops' = Append(ops, QueueWriteRequest("updateDisputeProfile", Juror, key, params))
  /\ calls' = Append(calls, [NewCall("api", 0) EXCEPT !.pc = "awaitWrite",
                                                      !.awaiting = Len(ops) + 1,
                                                      !.issued = {Len(ops) + 1}])
  /\ UNCHANGED <<view, scan, token, profiles, commits, events, profiles0, ledger, disputes>>

\* a caller's await setUpUserProfile(account): getUserProfile, and when there is
\* no profile updateUserProfile(account, {}), not awaited, followed by a queued
\* read whose outcome is returned; the profile read is returned when there is one
ApiSetUpUserProfile ==
  /\ Len(calls) < MaxOps
  /\ LET userProfile == getUserProfile(profiles, Juror)
     IN  IF userProfile = None
         THEN /\ Len(ops) + 2 <= MaxOps
              /\ ops' = ops \o
                   << QueueWriteRequest("updateUserProfile", Juror, None, NoProfileParams),
                      QueueReadRequest(Juror) >>
              /\ calls' = Append(calls, [NewCall("setUpUserProfile", 0) EXCEPT
                                           !.pc = "awaitProfile",
                                           !.awaiting = Len(ops) + 2,
                                           !.issued = {Len(ops) + 1}])
         ELSE /\ calls' = Append(calls, [NewCall("setUpUserProfile", 0) EXCEPT
                                           !.pc = "done",
                                           !.result = Some(ProfileResult(userProfile))])
              /\ UNCHANGED ops
  /\ UNCHANGED <<view, scan, token, profiles, commits, events, profiles0, ledger, disputes>>

\* the fields a caller sets on a user profile (its session)
SessionParams == [disputes |-> None, session |-> Some(1), contracts |-> None]

\* a caller's await updateUserProfile(account, params)
ApiUpdateUserProfile(params) ==
  /\ Len(ops) < MaxOps
  /\ ops' = Append(ops, QueueWriteRequest("updateUserProfile", Juror, None, params))
  /\ calls' = Append(calls, [NewCall("updateUserProfile", 0) EXCEPT
                               !.pc = "awaitWrite",
                               !.awaiting = Len(ops) + 1,
                               !.issued = {Len(ops) + 1}])
  /\ UNCHANGED <<view, scan, token, profiles, commits, events, profiles0, ledger, disputes>>

\* the fields a caller sets on a contract entry (its description)
ContractParams == [description |-> Some("new description"), email |-> None]

\* a caller's await updateContract(userAddress, contractAddress, params)
ApiUpdateContract(address, params) ==
  /\ Len(ops) < MaxOps
  /\ ops' = Append(ops, QueueWriteRequest("updateContract", address, None, params))
  /\ calls' = Append(calls, [NewCall("updateContract", 0) EXCEPT
                               !.pc = "awaitContract",
                               !.awaiting = Len(ops) + 1,
                               !.issued = {Len(ops) + 1}])
  /\ UNCHANGED <<view, scan, token, profiles, commits, events, profiles0, ledger, disputes>>

\* the JSON of an evidence and of a notification
EvidenceBody == [name |-> "evidence"]
NotificationBody == [message |-> "notification"]

\* a caller's await addEvidenceContract(...) or await newNotification(...): a
\* fixed body is posted through the queue
ApiPostFixedBody(kind, address, body) ==
  /\ Len(ops) < MaxOps
  /\ ops' = Append(ops, QueueWriteRequest(kind, address, None, body))
  /\ calls' = Append(calls, [NewCall(kind, 0) EXCEPT
                               !.pc = "awaitWrite",
                               !.awaiting = Len(ops) + 1,
                               !.issued = {Len(ops) + 1}])
  /\ UNCHANGED <<view, scan, token, profiles, commits, events, profiles0, ledger, disputes>>

(***************************************************************************)
(* Event delivery (the EventListener): an event of the ledger is handed    *)
(* to the handlers registered for its name; an event already delivered may *)
(* be delivered again (a replay from the lastBlock watermark).             *)
(***************************************************************************)
HandlersFor(name) ==
  CASE name = "DisputeCreation" -> <<"newDispute">>
    [] name = "TokenShift" -> <<"tokensMoved">>
    [] name = "NewPeriod" -> <<"ruledAt", "deadline">>

\* the handlers of the event at position e of the log are called with it
Dispatch(cs, name, e) ==
  cs \o [h \in 1..Len(HandlersFor(name)) |-> NewCall(HandlersFor(name)[h], e)]

Finished(call) == call.pc \in {"done", "threw"}

\* nothing is in flight: every handler has returned and every operation settled
Quiescent ==
  /\ \A c \in 1..Len(calls) : Finished(calls[c])
  /\ \A i \in 1..Len(ops) : Settled(ops[i])

TokenShiftEvent(d, account, amount) ==
  [name |-> "TokenShift", disputeID |-> d, account |-> account, amount |-> amount]

\* the ledger emits a TokenShift event and the listener delivers it
DeliverTokenShift(d, account) ==
  /\ Len(calls) < MaxDeliveries
  /\ events' = Append(events, TokenShiftEvent(d, account, AmountOf(Len(events) + 1)))
  /\ calls' = Dispatch(calls, "TokenShift", Len(events) + 1)
  /\ UNCHANGED <<view, scan, token, profiles, ops, commits, profiles0, ledger, disputes>>

\* the listener delivers event e of the log once more
Redeliver(e) ==
  /\ e \in 1..Len(events)
  /\ Len(calls) + Len(HandlersFor(events[e].name)) <= MaxDeliveries
  /\ calls' = Dispatch(calls, events[e].name, e)
  /\ UNCHANGED <<view, scan, token, profiles, ops, commits, events, profiles0, ledger, disputes>>

(***************************************************************************)
(* _storeTokensMovedForJuror                                               *)
(***************************************************************************)
\* the new netPNK without the stored one
ShiftedNetPNKReset(dispute, amountShift) == amountShift

\* (dispute.netPNK || 0) + amountShift
ShiftedNetPNK(dispute, amountShift) ==
  (IF dispute.netPNK = None THEN 0 ELSE Val(dispute.netPNK)) + amountShift

\* the handler's test of the event's account against the bound account,
\* without the test
AddressedToAny(event, account) == TRUE

\* if (address === account)
AddressedTo(event, account) == event.account = account

\* _.findIndex(userProfile.disputes, ...) >= 0
TracksDispute(userProfile, key) == userProfile.disputes[key] # None

\* from the call to its wait: the address test, setUpUserProfile's
\* getUserProfile, and either the queued create-then-read (no profile), after
\* which userProfile is the HTTP response {body, status}, which has no
\* disputes, so that findIndex gives -1 and the handler returns, or the lookup
\* of the dispute and the awaited updateDisputeProfile
TokensMovedStart(c) ==
  /\ c \in 1..Len(calls)
  /\ calls[c].handler = "tokensMoved"
  /\ calls[c].pc = "start"
  /\ LET e == events[calls[c].ev]
         key == <<Kleros, e.disputeID>>
         userProfile == getUserProfile(profiles, Juror)
     IN  IF ~AddressedTo(e, Juror)
         THEN /\ calls' = [calls EXCEPT ![c].pc = "done"]
              /\ UNCHANGED ops
         ELSE IF userProfile = None
         THEN /\ Len(ops) + 2 <= MaxOps
              /\ ops' = ops \o
                   << QueueWriteRequest("updateUserProfile", Juror, None, NoProfileParams),
                      QueueReadRequest(Juror) >>
              /\ calls' = [calls EXCEPT ![c].pc = "awaitProfile",
                                        ![c].awaiting = Len(ops) + 2,
                                        ![c].issued = {Len(ops) + 1}]
         ELSE IF ~TracksDispute(Val(userProfile), key)
         THEN /\ calls' = [calls EXCEPT ![c].pc = "done"]
              /\ UNCHANGED ops
         ELSE /\ Len(ops) < MaxOps
              /\ ops' = Append(ops,
                   QueueWriteRequest("updateDisputeProfile", Juror, key,
                     [netPNK |-> Some(ShiftedNetPNK(Val(Val(userProfile).disputes[key]),
                                                    e.amount)),
                      hasRuled |-> None, appealDraws |-> None]))
              /\ calls' = [calls EXCEPT ![c].pc = "awaitWrite",
                                        ![c].awaiting = Len(ops) + 1,
                                        ![c].issued = {Len(ops) + 1}]
  /\ UNCHANGED <<view, scan, token, profiles, commits, events, profiles0, ledger, disputes>>

(***************************************************************************)
(* The ledger (the arbitrator contract), as the handlers read it.          *)
(***************************************************************************)
Periods == <<"ACTIVATION", "DRAW", "VOTE", "APPEAL", "EXECUTE">>
PeriodIndex(p) == CHOOSE i \in 1..Len(Periods) : Periods[i] = p
NextPeriod(p) == Periods[(PeriodIndex(p) % Len(Periods)) + 1]

\* getOpenDisputesForSession: the disputes whose last session is the current one
OpenDisputes(l) ==
  {d \in DisputeIds :
     /\ l.dispute[d] # None
     /\ Val(l.dispute[d]).firstSession + Val(l.dispute[d]).numberOfAppeals = l.session}

\* getBlock(blockNumber).timestamp
BlockTimestamp(blockNumber) == blockNumber

\* getDeadlineForOpenDispute: set by the ledger at its last change of period
DeadlineForOpenDispute(l) == l.lastPeriodChange + 1

\* the ids of S in increasing order
IdsInOrder(S) ==
  SelectSeq([i \in 1..(MaxDisputeId + 1) |-> i - 1], LAMBDA d : d \in S)

\* the deliveries made so far of events already delivered
Redeliveries ==
  Cardinality({c \in DOMAIN calls :
                 \E b \in 1..(c - 1) :
                   calls[b].ev = calls[c].ev /\ calls[b].handler = calls[c].handler})

\* the states of a dispute on the ledger (constants/dispute, STATE) and the
\* statuses of its record
States == {"OPEN", "RESOLVING", "EXECUTABLE"}
Statuses == {"WAITING", "SOLVED"}

\* addresses of contracts, as numbers: NULL_ADDRESS, the address of the record
\* the ledger answers for an unset dispute, and the address of the contract
\* arbitrated by dispute d
NULL_ADDRESS == 0
ContractOf(d) == d + 1
\* the draws of a dispute: getAmountOfJurorsForDispute answers MaxDraws
MaxDraws == 2

\* the arbitration fee per juror of every dispute
FeePerJuror == 3

\* the ledger's record of dispute d raised in the given session; voteCounters
\* and rulings are its vote counters and current ruling by round; canRule is
\* the ledger's answer to canRuleDispute for the juror, drawn the draws for
\* which it answers isJurorDrawnForDispute with true, readFails the read of
\* the draws that fails ("none", "amount": getAmountOfJurorsForDispute,
\* "drawn": isJurorDrawnForDispute)
NewLedgerDispute(d, session) ==
  [firstSession |-> session, numberOfAppeals |-> 0, state |-> "OPEN",
   status |-> "WAITING", canRule |-> FALSE, arbitratedContract |-> ContractOf(d),
   drawn |-> {}, readFails |-> "none",
   arbitrationFeePerJuror |-> FeePerJuror,
   voteCounters |-> [r \in 1..(MaxAppeals + 2) |-> <<r, 2 * r>>],
   rulings |-> [r \in 1..(MaxAppeals + 2) |-> (r % 2) + 1]]

\* currentRulingForDispute(disputeId, appeal): the ruling of the ledger for
\* the round
currentRulingForDispute(dispute, appeal) == dispute.rulings[appeal + 1]

\* a dispute is raised on the ledger before the draw of the session is over,
\* and the ledger emits DisputeCreation
CreateDispute(d) ==
  /\ Quiescent
  /\ ledger.period \in {"ACTIVATION", "DRAW"}
  /\ ledger.dispute[d] = None
  /\ ledger' = [ledger EXCEPT
       !.block = @ + 1,
       !.dispute[d] = Some(NewLedgerDispute(d, ledger.session))]
  /\ events' = Append(events, [name |-> "DisputeCreation", disputeID |-> d,
                               blockNumber |-> ledger.block + 1])
  /\ calls' = Dispatch(calls, "DisputeCreation", Len(events) + 1)
  /\ UNCHANGED <<view, scan, token, profiles, ops, commits, profiles0, disputes>>

\* the ledger passes to its next period, and to its next session after the
\* last period, and emits NewPeriod
PassPeriod ==
  /\ Quiescent
  /\ ledger.period = "EXECUTE" => ledger.session < MaxSession
  /\ ledger' = [ledger EXCEPT
       !.block = @ + 1,
       !.lastPeriodChange = ledger.block + 1,
       !.period = NextPeriod(@),
       !.session = IF ledger.period = "EXECUTE" THEN @ + 1 ELSE @]
  /\ events' = Append(events, [name |-> "NewPeriod", blockNumber |-> ledger.block + 1,
                               period |-> NextPeriod(ledger.period)])
  /\ calls' = Dispatch(calls, "NewPeriod", Len(events) + 1)
  /\ UNCHANGED <<view, scan, token, profiles, ops, commits, profiles0, disputes>>

\* the ruling of an open dispute is appealed: the dispute goes to the next session
AppealDispute(d) ==
  /\ ledger.period = "APPEAL"
  /\ d \in OpenDisputes(ledger)
  /\ Val(ledger.dispute[d]).numberOfAppeals < MaxAppeals
  /\ ledger' = [ledger EXCEPT
       !.dispute[d] = Some([Val(@) EXCEPT !.numberOfAppeals = @ + 1])]
  /\ UNCHANGED <<view, scan, token, profiles, ops, commits, events, calls, profiles0, disputes>>

\* the listener delivers once more a DisputeCreation event of the log, or the
\* NewPeriod event it delivered last
RedeliverDisputeEvent(e) ==
  /\ Quiescent
  /\ \/ events[e].name = "DisputeCreation"
     \/ events[e].name = "NewPeriod" /\ e = Len(events)
  /\ Redeliveries < MaxRedeliveries
  /\ calls' = Dispatch(calls, events[e].name, e)
  /\ UNCHANGED <<view, scan, token, profiles, ops, commits, events, profiles0, ledger, disputes>>

\* the listener delivers once more any NewPeriod event of the log, as when it
\* consumes old events again from an earlier watermark
RedeliverOldEvent(e) ==
  /\ Quiescent
  /\ e \in DOMAIN events
  /\ events[e].name = "NewPeriod"
  /\ Redeliveries < MaxRedeliveries
  /\ calls' = Dispatch(calls, events[e].name, e)
  /\ UNCHANGED <<view, scan, token, profiles, ops, commits, events, profiles0, ledger, disputes>>

\* the listener delivers a DisputeCreation event of the log once more while
\* handlers of earlier deliveries may still be running
RedeliverCreationNow(e) ==
  /\ e \in DOMAIN events
  /\ events[e].name = "DisputeCreation"
  /\ Redeliveries < MaxRedeliveries
  /\ calls' = Dispatch(calls, events[e].name, e)
  /\ UNCHANGED <<view, scan, token, profiles, ops, commits, events, profiles0, ledger, disputes>>

(***************************************************************************)
(* getDataForDispute, as far as the handlers use it: the ledger's          *)
(* numberOfAppeals and the appeal arrays of the store.                     *)
(***************************************************************************)
\* getDisputesForUser(account): the disputes of the account's profile
TrackedByUser(store, account, key) ==
  /\ getUserProfile(store, account) # None
  /\ TracksDispute(Val(getUserProfile(store, account)), key)

\* getDisputeData(arbitratorAddress, disputeId, account): the store's data of
\* the dispute for the account; None when the read fails (no profile, the
\* profile has no such dispute)
getDisputeData(store, dstore, key, account) ==
  IF ~TrackedByUser(store, account, key) THEN None
  ELSE LET disputeProfile == Val(Val(getUserProfile(store, account)).disputes[key])
           body == IF getDispute(dstore, key) = None THEN EmptyDispute
                   ELSE Val(getDispute(dstore, key))
       IN  Some(disputeProfile @@ body)

\* let arr = []; if (userData.field) arr = userData.field, with the catch that
\* leaves [] when the read failed
StoreArray(userData, field) ==
  IF userData = None THEN <<>>
  ELSE IF Val(userData)[field] = None THEN <<>>
  ELSE Val(Val(userData)[field])

\* getContractByAddress(partyA, ...) throws when party A has no profile
GetDataForDisputeThrows(store) == getUserProfile(store, PartyA) = None

\* getContractByAddress(userAddress, addressContract) for a user with a
\* profile: _.filter(userProfile.contracts, ...)[0], None when no entry matches
getContractByAddress(store, userAddress) ==
  Val(getUserProfile(store, userAddress)).contracts

\* let netPNK = 0; if (userData.netPNK) netPNK = userData.netPNK
StoreNetPNK(userData) ==
  IF userData = None THEN 0
  ELSE IF Val(userData).netPNK = None THEN 0
  ELSE Val(Val(userData).netPNK)

\* array[n] of a JavaScript array: None (undefined) past its end and at an
\* empty slot
ArrayAt(array, n) == IF n + 1 <= Len(array) THEN array[n + 1] ELSE None

\* appealDraws[appeal] || []
DrawsOf(appealDraws, appeal) ==
  IF ArrayAt(appealDraws, appeal) = None THEN <<>>
  ELSE Val(ArrayAt(appealDraws, appeal))

\* the fee per juror alone, whatever the draws
FeePerJurorOnly(dispute, draws) == dispute.arbitrationFeePerJuror

\* fee: dispute.arbitrationFeePerJuror * draws.length
FeeOf(dispute, draws) == dispute.arbitrationFeePerJuror * Len(draws)

\* the number getPeriod() answers for a period (constants/arbitrator, PERIOD)
PeriodNumber(p) == PeriodIndex(p) - 1

\* a number taken as a condition: 0 is false
Truthy(n) == n # 0

\* canRuleDispute is pushed to rulingPromises
CanRuleAsked(isLastAppeal, draws) == isLastAppeal /\ Len(draws) > 0

\* [ruling, canRule] = await Promise.all(rulingPromises): the ledger's answer
\* when canRuleDispute was pushed, undefined (None) when rulingPromises has
\* the ruling only
CanRule(dispute, asked) == IF asked THEN Some(dispute.canRule) ELSE None

\* canRepartition of a round: false, and for the last round, if (session &&
\* period), lastSession <= session && period === EXECUTE && state === OPEN
CanRepartition(l, dispute, isLastAppeal) ==
  LET lastSession == dispute.firstSession + dispute.numberOfAppeals
  IN  IF isLastAppeal /\ Truthy(l.session) /\ Truthy(PeriodNumber(l.period))
      THEN /\ lastSession <= l.session
           /\ l.period = "EXECUTE"
           /\ dispute.state = "OPEN"
      ELSE FALSE

\* canExecute of a round: false, and for the last round state === EXECUTABLE
CanExecute(dispute, isLastAppeal) == isLastAppeal /\ dispute.state = "EXECUTABLE"

\* one turn of the loop over the appeals: the entries appealJuror[appeal] and
\* appealRulings[appeal], and whether the ledger was asked canRuleDispute
AppealRound(l, dispute, appeal, userData) ==
  LET appealDraws == StoreArray(userData, "appealDraws")
      appealCreatedAt == StoreArray(userData, "appealCreatedAt")
      appealDeadlines == StoreArray(userData, "appealDeadlines")
      appealRuledAt == StoreArray(userData, "appealRuledAt")
      lastSession == dispute.firstSession + dispute.numberOfAppeals
      isLastAppeal == dispute.firstSession + appeal = lastSession
      draws == DrawsOf(appealDraws, appeal)
      asked == CanRuleAsked(isLastAppeal, draws)
  IN  [juror |-> [createdAt |-> ArrayAt(appealCreatedAt, appeal),
                  fee |-> FeeOf(dispute, draws),
                  draws |-> draws,
                  canRule |-> CanRule(dispute, asked)],
       rulings |-> [voteCounter |-> dispute.voteCounters[appeal + 1],
                    deadline |-> ArrayAt(appealDeadlines, appeal),
                    ruledAt |-> ArrayAt(appealRuledAt, appeal),
                    ruling |-> currentRulingForDispute(dispute, appeal),
                    canRepartition |-> CanRepartition(l, dispute, isLastAppeal),
                    canExecute |-> CanExecute(dispute, isLastAppeal)],
       asked |-> asked]

\* the dispute data of the view with the status the store has, when it has one
DisputeDataStoreFirst(dispute, userData) ==
  [firstSession |-> dispute.firstSession,
   lastSession |-> dispute.firstSession + dispute.numberOfAppeals,
   numberOfAppeals |-> dispute.numberOfAppeals,
   disputeState |-> dispute.state,
   disputeStatus |-> IF userData # None /\ Val(userData).status # None
                     THEN Val(Val(userData).status) ELSE dispute.status]

\* the dispute data of the view: the ledger's record, whatever the store has
DisputeData(dispute, userData) ==
  [firstSession |-> dispute.firstSession,
   lastSession |-> dispute.firstSession + dispute.numberOfAppeals,
   numberOfAppeals |-> dispute.numberOfAppeals,
   disputeState |-> dispute.state,
   disputeStatus |-> dispute.status]

\* the store data of the dispute read by getDataForDispute; readFailed: the
\* read of getDisputeData failed for another reason (the request did)
UserData(store, dstore, disputeId, account, readFailed) ==
  IF readFailed THEN None
  ELSE getDisputeData(store, dstore, <<Kleros, disputeId>>, account)

\* the turns of the loop of getDataForDispute, by appeal + 1
AppealRounds(l, store, dstore, disputeId, account, readFailed) ==
  LET dispute == Val(l.dispute[disputeId])
      userData == UserData(store, dstore, disputeId, account, readFailed)
  IN  [r \in 1..(dispute.numberOfAppeals + 1) |->
         AppealRound(l, dispute, r - 1, userData)]

\* getDataForDispute(disputeId, account) when it returns: the view
getDataForDispute(l, store, dstore, disputeId, account, readFailed) ==
  LET dispute == Val(l.dispute[disputeId])
      contractStoreData == getContractByAddress(store, PartyA)
      userData == UserData(store, dstore, disputeId, account, readFailed)
      rounds == AppealRounds(l, store, dstore, disputeId, account, readFailed)
  IN  DisputeData(dispute, userData) @@
      [appealJuror |-> [r \in DOMAIN rounds |-> rounds[r].juror],
       appealRulings |-> [r \in DOMAIN rounds |-> rounds[r].rulings],
       description |-> IF contractStoreData # None
                       THEN Val(contractStoreData).description ELSE None,
       email |-> IF contractStoreData # None
                 THEN Val(contractStoreData).email ELSE None,
       netPNK |-> StoreNetPNK(userData),
       appealCreatedAt |-> StoreArray(userData, "appealCreatedAt"),
       appealDeadlines |-> StoreArray(userData, "appealDeadlines"),
       appealRuledAt |-> StoreArray(userData, "appealRuledAt")]

\* array[n] = value on a fresh array: what the read had is dropped
SetSlotOfEmpty(array, n, value) ==
  [i \in 1..(n + 1) |-> IF i = n + 1 THEN Some(value) ELSE None]

\* array[n] = value on a JavaScript array: the slots between the end of the
\* array and n are left empty
SetSlot(array, n, value) ==
  [i \in 1..(IF Len(array) > n + 1 THEN Len(array) ELSE n + 1) |->
     IF i = n + 1 THEN Some(value)
     ELSE IF i <= Len(array) THEN array[i] ELSE None]

\* _.isNull(existingDispute), without the test
IsNullAlways(x) == TRUE

\* _.isNull(existingDispute)
IsNull(x) == x = None

(***************************************************************************)
(* _storeNewDisputeHandler                                                 *)
(***************************************************************************)
StoreNewDispute(c) ==
  /\ c \in DOMAIN calls
  /\ calls[c].handler = "newDispute"
  /\ calls[c].pc = "start"
  /\ LET e == events[calls[c].ev]
         key == <<Kleros, e.disputeID>>
         existingDispute == getDispute(disputes, key)
         disputeData == getDataForDispute(ledger, profiles, disputes, e.disputeID,
                                          Juror, FALSE)
         appealCreatedAt == SetSlot(disputeData.appealCreatedAt,
                                    disputeData.numberOfAppeals,
                                    BlockTimestamp(e.blockNumber) * 1000)
     IN  IF ~IsNull(existingDispute)
         THEN /\ calls' = [calls EXCEPT ![c].pc = "done"]
              /\ UNCHANGED ops
         ELSE IF GetDataForDisputeThrows(profiles)
         THEN /\ calls' = [calls EXCEPT ![c].pc = "threw"]
              /\ UNCHANGED ops
         ELSE /\ ops' = Append(ops,
                   QueueWriteRequest("updateDispute", None, key,
                     [EmptyDispute EXCEPT !.appealCreatedAt = Some(appealCreatedAt)]))
              /\ calls' = [calls EXCEPT
                   ![c].pc = "awaitWrite",
                   ![c].awaiting = Len(ops) + 1,
                   ![c].issued = {Len(ops) + 1},
                   ![c].wrote = {<<Len(ops) + 1, disputeData.numberOfAppeals>>}]
  /\ UNCHANGED <<view, scan, token, profiles, commits, events, profiles0, ledger, disputes>>

(***************************************************************************)
(* _storeDisputeRuledAtTimestamp and _storeAppealDeadline: for every open  *)
(* dispute of the session that the account's profile has, the array read   *)
(* through getDataForDispute with slot [numberOfAppeals] set is passed to  *)
(* updateDispute, which is not awaited.  failed is the set of disputes     *)
(* whose store read in getDataForDispute fails.                            *)
(***************************************************************************)
\* the open disputes the handler goes on with, in increasing order
DisputesToUpdate == 
  IdsInOrder({d \in OpenDisputes(ledger) : TrackedByUser(profiles, Juror, <<Kleros, d>>)})

\* the parameters a period handler passes to updateDispute for dispute d
PeriodParams(field, d, value, failed) ==
  LET disputeData == getDataForDispute(ledger, profiles, disputes, d, Juror,
                                       d \in failed)
  IN  [EmptyDispute EXCEPT
         ![field] = Some(SetSlot(disputeData[field], disputeData.numberOfAppeals, value))]

\* the period taken from the event handled
NewPeriodOfEvent(l, e) == e.period

\* const newPeriod = await this._ArbitratorInstance.getPeriod(): the period of
\* the ledger as the handler runs, whatever the event handled says
NewPeriodRead(l, e) == l.period

\* a run of a period handler for the period it handles
StoreOnPeriod(c, handler, period, field, value, failed) ==
  /\ c \in DOMAIN calls
  /\ calls[c].handler = handler
  /\ calls[c].pc = "start"
  /\ LET ds == DisputesToUpdate
         newPeriod == NewPeriodRead(ledger, events[calls[c].ev])
     IN  IF newPeriod # period \/ Len(ds) = 0
         THEN /\ calls' = [calls EXCEPT ![c].pc = "done",
                                        ![c].newPeriod = Some(newPeriod)]
              /\ UNCHANGED ops
         ELSE IF GetDataForDisputeThrows(profiles)
         THEN /\ calls' = [calls EXCEPT ![c].pc = "threw",
                                        ![c].newPeriod = Some(newPeriod)]
              /\ UNCHANGED ops
         ELSE /\ ops' = ops \o
                   [n \in 1..Len(ds) |->
                      QueueWriteRequest("updateDispute", None, <<Kleros, ds[n]>>,
                                        PeriodParams(field, ds[n], value, failed))]
              /\ calls' = [calls EXCEPT
                   ![c].pc = "done",
                   ![c].newPeriod = Some(newPeriod),
                   ![c].issued = {Len(ops) + n : n \in 1..Len(ds)},
                   ![c].wrote =
                     {<<Len(ops) + n, Val(ledger.dispute[ds[n]]).numberOfAppeals>> :
                        n \in 1..Len(ds)}]
  /\ UNCHANGED <<view, scan, token, profiles, commits, events, profiles0, ledger, disputes>>

StoreDisputeRuledAtTimestamp(c, failed) ==
  StoreOnPeriod(c, "ruledAt", "APPEAL", "appealRuledAt",
                BlockTimestamp(events[calls[c].ev].blockNumber) * 1000, failed)

StoreAppealDeadline(c, failed) ==
  StoreOnPeriod(c, "deadline", "VOTE", "appealDeadlines",
                DeadlineForOpenDispute(ledger), failed)

(***************************************************************************)
(* Initial states: the wrapper is constructed with or without a token, the *)
(* store holds any profile for the juror and for party A.                  *)
(***************************************************************************)
InitialNetPNK == {None, Some(2)}
\* the juror's profile: none, or one that tracks any of the bound arbitrator's
\* disputes and every dispute of the other arbitrator
InitialDisputes ==
  {d \in [Keys -> {None} \cup {Some([netPNK |-> n, hasRuled |-> None, appealDraws |-> None]) : n \in InitialNetPNK}] :
     \A k \in Keys : k[1] = OtherArb => d[k] = Some([netPNK |-> Some(2), hasRuled |-> None, appealDraws |-> None])}
InitialProfiles ==
  {None} \cup {Some([disputes |-> d, session |-> None, contracts |-> None]) :
             d \in InitialDisputes}

Init ==
  /\ token \in BOOLEAN
  /\ profiles \in [ProfileOwners -> InitialProfiles \cup {Some(NewProfile)}]
  /\ profiles[Juror] \in InitialProfiles
  /\ profiles[PartyA] \in {None, Some(NewProfile)}
  /\ profiles0 = profiles
  /\ ops = <<>>
  /\ commits = <<>>
  /\ events = <<>>
  /\ calls = <<>>
  /\ ledger = [period |-> "ACTIVATION", session |-> 1, block |-> 0,
               lastPeriodChange |-> 0, dispute |-> [d \in DisputeIds |-> None]]
  /\ disputes = [k \in Keys |-> None]
  /\ view = None
  /\ scan = None

QueueStep == \E i \in DOMAIN ops : QueueStart(i) \/ QueueBody(i) \/ QueueRespond(i)

TokensMovedStep == \E c \in DOMAIN calls : TokensMovedStart(c)

Api ==
  \/ \E k \in Keys, p \in {RuledParams, NetParams} : ApiUpdateDisputeProfile(k, p)
  \/ ApiSetUpUserProfile

\* deliveries made only when nothing is in flight
DeliverTokenShiftSeq(d, account) == Quiescent /\ DeliverTokenShift(d, account)
RedeliverSeq(e) == Quiescent /\ Redeliver(e)

(***************************************************************************)
(* A caller of getDataForDispute.                                          *)
(***************************************************************************)
\* await getDataForDispute(disputeId, account) with the ledger reads
\* succeeding: it throws when getContractByAddress does, else it returns the
\* view; canRuleCalls are the appeals it asked the ledger canRuleDispute for
ApiGetDataForDispute(disputeId, account, readFailed) ==
  /\ ledger.dispute[disputeId] # None
  /\ view' =
       IF GetDataForDisputeThrows(profiles)
       THEN Some([outcome |-> "threw", disputeId |-> disputeId, account |-> account,
                  readFailed |-> readFailed, data |-> None, canRuleCalls |-> {}])
       ELSE LET rounds == AppealRounds(ledger, profiles, disputes, disputeId,
                                       account, readFailed)
            IN  Some([outcome |-> "returned", disputeId |-> disputeId,
                      account |-> account, readFailed |-> readFailed,
                      data |-> Some(getDataForDispute(ledger, profiles, disputes,
                                                      disputeId, account, readFailed)),
                      canRuleCalls |-> {r - 1 : r \in {q \in DOMAIN rounds :
                                                         rounds[q].asked}}])
  /\ UNCHANGED <<scan, token, profiles, ops, commits, events, calls, profiles0,
                 ledger, disputes>>

(***************************************************************************)
(* The gateway under concurrent callers.                                   *)
(***************************************************************************)
NextQueue == QueueStep \/ Api \/ SetAuthToken
SpecQueue == Init /\ [][NextQueue]_vars

(***************************************************************************)
(* The gateway's write operations, with a store that may refuse a POST.    *)
(***************************************************************************)
QueueFailureStep ==
  \E i \in DOMAIN ops, status \in FailureStatuses : QueueRespondFailure(i, status)

ApiGateway ==
  \/ ApiUpdateDisputeProfile(<<Kleros, 0>>, RuledParams)
  \/ ApiSetUpUserProfile
  \/ ApiUpdateUserProfile(SessionParams)
  \/ \E a \in ProfileOwners : ApiUpdateContract(a, ContractParams)
  \/ ApiPostFixedBody("addEvidenceContract", PartyA, EvidenceBody)
  \/ ApiPostFixedBody("newNotification", Juror, NotificationBody)

NextGateway == QueueStep \/ QueueFailureStep \/ ApiGateway \/ SetAuthToken
SpecGateway == Init /\ [][NextGateway]_vars

(***************************************************************************)
(* The queue with a store that answers every request: with the record, a   *)
(* refusal, or a 401 whose body cannot be parsed.                          *)
(***************************************************************************)
NextQueueLive ==
  \/ QueueStep
  \/ QueueFailureStep
  \/ \E i \in DOMAIN ops : QueueRespondUnparsable(i)
  \/ ApiUpdateDisputeProfile(<<Kleros, 0>>, RuledParams)
  \/ ApiSetUpUserProfile
  \/ SetAuthToken
\* an operation whose turn has come is started, and every request is answered
SpecQueueLive ==
  /\ Init
  /\ [][NextQueueLive]_vars
  /\ WF_vars(QueueStep \/ QueueFailureStep \/ \E i \in DOMAIN ops : QueueRespondUnparsable(i))

(***************************************************************************)
(* TokenShift events delivered while earlier deliveries may be in flight.  *)
(***************************************************************************)
NextShift ==
  \/ QueueStep
  \/ TokensMovedStep
  \/ \E d \in DisputeIds, a \in {Juror, Other} : DeliverTokenShift(d, a)
  \/ SetAuthToken
SpecShift == Init /\ [][NextShift]_vars

(***************************************************************************)
(* TokenShift events delivered, and replayed, one after the other.         *)
(***************************************************************************)
NextShiftSeq ==
  \/ QueueStep
  \/ TokensMovedStep
  \/ \E d \in DisputeIds, a \in {Juror, Other} : DeliverTokenShiftSeq(d, a)
  \/ \E e \in DOMAIN events : RedeliverSeq(e)
  \/ SetAuthToken
SpecShiftSeq == Init /\ [][NextShiftSeq]_vars

(***************************************************************************)
(* DisputeCreation and NewPeriod events delivered, and replayed, one after *)
(* the other, with every store read of the handlers answered.              *)
(***************************************************************************)
LedgerStep ==
  \/ \E d \in DisputeIds : CreateDispute(d) \/ AppealDispute(d)
  \/ PassPeriod
  \/ \E e \in DOMAIN events : RedeliverDisputeEvent(e)

DisputeHandlerStep ==
  \E c \in DOMAIN calls :
    StoreNewDispute(c) \/ StoreDisputeRuledAtTimestamp(c, {})
      \/ StoreAppealDeadline(c, {})

NextDispute == QueueStep \/ LedgerStep \/ DisputeHandlerStep
SpecDispute == Init /\ [][NextDispute]_vars

(***************************************************************************)
(* The same, with any NewPeriod event replayed at any later time.          *)
(***************************************************************************)
LedgerReplayStep ==
  \/ \E d \in DisputeIds : CreateDispute(d) \/ AppealDispute(d)
  \/ PassPeriod
  \/ \E e \in DOMAIN events : RedeliverOldEvent(e)

NextReplay == QueueStep \/ LedgerReplayStep \/ DisputeHandlerStep
SpecReplay == Init /\ [][NextReplay]_vars

(***************************************************************************)
(* The same, with a DisputeCreation event delivered again while handlers   *)
(* are running.                                                            *)
(***************************************************************************)
LedgerRaceStep ==
  \/ \E d \in DisputeIds : CreateDispute(d) \/ AppealDispute(d)
  \/ PassPeriod
  \/ \E e \in DOMAIN events : RedeliverCreationNow(e)

NextRace == QueueStep \/ LedgerRaceStep \/ DisputeHandlerStep
SpecRace == Init /\ [][NextRace]_vars

(***************************************************************************)
(* The same, with store reads of getDataForDispute that may fail.          *)
(***************************************************************************)
DisputeHandlerFaultyStep ==
  \E c \in DOMAIN calls, failed \in SUBSET DisputeIds :
    StoreNewDispute(c) \/ StoreDisputeRuledAtTimestamp(c, failed)
      \/ StoreAppealDeadline(c, failed)

NextDisputeFaulty == QueueStep \/ LedgerStep \/ DisputeHandlerFaultyStep
SpecDisputeFaulty == Init /\ [][NextDisputeFaulty]_vars

(***************************************************************************)
(* getDataForDispute called on any ledger and any store.                   *)
(***************************************************************************)
\* the first sessions of the dispute the ledger may have
FirstSessions == 0..1
\* a slot of appealDraws in the store: empty, no draw, one draw
DrawSlots == {None, Some(<<>>), Some(<<1>>)}
AppealDrawArrays == [1..(MaxAppeals + 1) -> DrawSlots]
\* the dispute record the store may have: its arrays filled, and a status
StoredDispute ==
  [appealCreatedAt |-> Some(<<Some(1000)>>), appealRuledAt |-> Some(<<Some(3000)>>),
   appealDeadlines |-> Some(<<Some(2000)>>), status |-> Some("STORED")]
\* the entry of the arbitrable contract the profile of party A may have
StoredContract == [description |-> Some("description"), email |-> Some("email")]

\* the ledgers: any session from 0 on, any period, dispute 0 in any state
ViewLedgers ==
  {[period |-> p, session |-> s, block |-> 0, lastPeriodChange |-> 0,
    dispute |-> [d \in DisputeIds |->
                   Some([NewLedgerDispute(d, f) EXCEPT
                           !.numberOfAppeals = n, !.state = st, !.status = status,
                           !.canRule = cr])]] :
     p \in {Periods[i] : i \in DOMAIN Periods}, s \in 0..MaxSession,
     f \in FirstSessions, n \in 0..MaxAppeals, st \in States, status \in Statuses,
     cr \in BOOLEAN}

\* the juror's profiles: none, or one with or without the dispute
ViewDisputeProfiles ==
  {None} \cup
  {Some([netPNK |-> n, hasRuled |-> None, appealDraws |-> a]) :
     n \in InitialNetPNK, a \in {None} \cup {Some(x) : x \in AppealDrawArrays}}
ViewJurorProfiles ==
  {None} \cup
  {Some([disputes |-> [k \in Keys |-> IF k[1] = Kleros THEN dp ELSE None],
         session |-> None, contracts |-> None]) : dp \in ViewDisputeProfiles}

InitView ==
  /\ token \in {TRUE}
  /\ ledger \in ViewLedgers
  /\ profiles \in [ProfileOwners -> ViewJurorProfiles
                     \cup {Some(NewProfile),
                           Some([NewProfile EXCEPT !.contracts = Some(StoredContract)])}]
  /\ profiles[Juror] \in ViewJurorProfiles
  /\ profiles[PartyA] \in {None, Some(NewProfile),
                           Some([NewProfile EXCEPT !.contracts = Some(StoredContract)])}
  /\ disputes \in {[k \in Keys |-> None],
                   [k \in Keys |-> IF k[1] = Kleros THEN Some(StoredDispute) ELSE None]}
  /\ profiles0 = profiles
  /\ ops = <<>>
  /\ commits = <<>>
  /\ events = <<>>
  /\ calls = <<>>
  /\ view = None
  /\ scan = None

NextView ==
  \E d \in DisputeIds, readFailed \in BOOLEAN : ApiGetDataForDispute(d, Juror, readFailed)
SpecView == InitView /\ [][NextView]_vars

(***************************************************************************)
(* getDisputeContractsForJuror (abstractWrappers/Disputes.js): the scan of *)
(* the ledger's disputes from index 0 for those of the current session in  *)
(* which the account is drawn.                                             *)
(***************************************************************************)
\* the scan reads the indices 0..MaxScanId + 1 at most; the ledger has no
\* dispute past MaxScanId
MaxScanId == 2
ScanIds == 0..MaxScanId

\* this._Arbitrator.getDispute(arbitratorAddress, disputeId): None when the
\* read throws (the index is out of range, or the read fails)
ArbitratorGetDispute(l, disputeId) ==
  IF disputeId \in DOMAIN l.dispute THEN l.dispute[disputeId] ELSE None

\* dispute.arbitratedContract === NULL_ADDRESS, never true
IsUnsetNever(dispute) == FALSE

\* dispute.arbitratedContract === NULL_ADDRESS
IsUnset(dispute) == dispute.arbitratedContract = NULL_ADDRESS

\* getVotesForJuror throws: one of its ledger reads fails
VotesThrow(dispute) == dispute.readFails # "none"

\* getVotesForJuror: the draws 1..numberOfJurors of the account, in order
getVotesForJuror(dispute) ==
  SelectSeq([draw \in 1..MaxDraws |-> draw], LAMBDA draw : draw \in dispute.drawn)

\* the call: arbitratorData is read, disputeId = 0, myDisputes = []
ScanCall ==
  /\ scan = None
  /\ scan' = Some([pc |-> "loop", disputeId |-> 0, myDisputes |-> <<>>,
                   currentSession |-> ledger.session, read |-> <<>>,
                   votesFailedAt |-> {}])
  /\ UNCHANGED <<view, token, profiles, ops, commits, events, calls, profiles0,
                 ledger, disputes>>

\* one turn of while (1): the dispute at disputeId is read; a throw and the
\* unset record end the scan; a dispute of another session is passed over
\* (the next one is read once before the turn ends); else the votes of the
\* account are read, a throw ending the scan, and the contract is kept when
\* there is a vote.  A break leads to return myDisputes.
ScanTurn ==
  /\ scan # None
  /\ Val(scan).pc = "loop"
  /\ LET sc == [Val(scan) EXCEPT !.read = Append(@, Val(scan).disputeId)]
         answer == ArbitratorGetDispute(ledger, sc.disputeId)
         dispute == Val(answer)
     IN  scan' =
           IF answer = None THEN Some([sc EXCEPT !.pc = "returned"])
           ELSE IF IsUnset(dispute) THEN Some([sc EXCEPT !.pc = "returned"])
           ELSE IF dispute.firstSession + dispute.numberOfAppeals # sc.currentSession
           THEN IF ArbitratorGetDispute(ledger, sc.disputeId + 1) = None
                THEN Some([sc EXCEPT !.disputeId = @ + 1, !.pc = "returned"])
                ELSE Some([sc EXCEPT !.disputeId = @ + 1])
           ELSE IF VotesThrow(dispute)
           THEN Some([sc EXCEPT !.pc = "returned",
                                !.votesFailedAt = @ \cup {sc.disputeId}])
           ELSE Some([sc EXCEPT
                  !.myDisputes = IF Len(getVotesForJuror(dispute)) > 0
                                 THEN Append(@, dispute.arbitratedContract) ELSE @,
                  !.disputeId = @ + 1])
  /\ UNCHANGED <<view, token, profiles, ops, commits, events, calls, profiles0,
                 ledger, disputes>>

\* what the ledger answers for an index: out of range, the unset record, or
\* a dispute of session 1 (the current one) or 2 with any draws of the
\* account and any failing read of them
ScanAnswers(d) ==
  {None, Some([NewLedgerDispute(d, 1) EXCEPT !.arbitratedContract = NULL_ADDRESS])}
  \cup {Some([NewLedgerDispute(d, 1) EXCEPT
                !.numberOfAppeals = n, !.drawn = dr, !.readFails = rf]) :
          n \in 0..1, dr \in {{}, {MaxDraws}}, rf \in {"none", "amount", "drawn"}}

InitScan ==
  /\ token = TRUE
  /\ profiles = [a \in ProfileOwners |-> None]
  /\ profiles0 = profiles
  /\ ops = <<>>
  /\ commits = <<>>
  /\ events = <<>>
  /\ calls = <<>>
  /\ disputes = [k \in Keys |-> None]
  /\ view = None
  /\ scan = None
  /\ \E answers \in [ScanIds -> UNION {ScanAnswers(d) : d \in ScanIds}] :
       /\ \A d \in ScanIds : answers[d] \in ScanAnswers(d)
       /\ ledger = [period |-> "VOTE", session |-> 1, block |-> 0,
                    lastPeriodChange |-> 0, dispute |-> answers]

NextScan == ScanCall \/ ScanTurn
SpecScan == InitScan /\ [][NextScan]_vars
\* a call goes on when the read it awaits is answered
SpecScanLive == InitScan /\ [][NextScan]_vars /\ WF_vars(NextScan)

(***************************************************************************)
(* getDisputesForUser and submitVotesForDispute                            *)
(* (abstractWrappers/Disputes.js): the synchronisation of the juror's      *)
(* profile with the session of the ledger, and the vote of the juror.      *)
(***************************************************************************)
\* the session is synchronised in every voting period
SyncNeededInVoting(period, currentSession, profile) == period = "VOTE"

\* period === VOTING_PERIOD and currentSession != profile.session
SyncNeeded(period, currentSession, profile) ==
  period = "VOTE" /\ Some(currentSession) # profile.session

\* the writes of _updateStoreForDispute(contractAddress, account) for the
\* contracts in turn, each awaited: the dispute, the dispute profile of
\* party A and that of the juror (party B keeps no profile in this store)
RECURSIVE UpdatesFor(_, _)
UpdatesFor(l, contracts) ==
  IF contracts = <<>> THEN <<>>
  ELSE LET d == Head(contracts) - 1
           key == <<Kleros, d>>
           params == [netPNK |-> None, hasRuled |-> Some(FALSE), appealDraws |-> None]
       IN  << QueueWriteRequest("updateDispute", None, key,
                [EmptyDispute EXCEPT !.status = Some(Val(l.dispute[d]).status)]),
              QueueWriteRequest("updateDisputeProfile", PartyA, key, params),
              QueueWriteRequest("updateDisputeProfile", Juror, key, params) >>
             \o UpdatesFor(l, Tail(contracts))

\* a caller's await getDisputesForUser(arbitratorAddress, account), one call
\* at a time: arbitratorData and the profile are read; outside the voting
\* period and with the session of the profile the disputes of the profile
\* are read and returned, else the juror scan is called
ApiGetDisputesForUser ==
  /\ Len(calls) < MaxDeliveries
  /\ \A c \in DOMAIN calls : calls[c].handler = "getDisputesForUser" => Finished(calls[c])
  /\ getUserProfile(profiles, Juror) # None
  /\ LET profile == Val(getUserProfile(profiles, Juror))
         sync == SyncNeeded(ledger.period, ledger.session, profile)
     IN  calls' = Append(calls,
           [handler |-> "getDisputesForUser", ev |-> 0,
            pc |-> IF sync THEN "scan" ELSE "done",
            awaiting |-> 0, issued |-> {}, wrote |-> {}, error |-> None,
            result |-> None, newPeriod |-> None,
            period |-> ledger.period, currentSession |-> ledger.session,
            profile |-> profile, found |-> None, todo |-> <<>>])
  /\ UNCHANGED <<view, scan, token, profiles, ops, commits, events, profiles0, ledger, disputes>>

\* await this.getDisputeContractsForJuror(arbitratorAddress, account)
SyncScan ==
  /\ \E c \in DOMAIN calls : calls[c].handler = "getDisputesForUser" /\ calls[c].pc = "scan"
  /\ ScanCall \/ ScanTurn

\* the store updates of call c: with the contracts the scan returned, and
\* then as each update resolves, the next write of _updateStoreForDispute is
\* enqueued and awaited; after the last one the profile is read again
SyncUpdate(c) ==
  /\ calls[c].handler = "getDisputesForUser"
  /\ \/ calls[c].pc = "scan" /\ scan # None /\ Val(scan).pc = "returned"
     \/ calls[c].pc = "update"
  /\ LET first == calls[c].pc = "scan"
         todo == IF first THEN UpdatesFor(ledger, Val(scan).myDisputes)
                 ELSE calls[c].todo
         call == IF first THEN [calls[c] EXCEPT !.found = Some(Val(scan).myDisputes)]
                 ELSE calls[c]
     IN  /\ scan' = IF first THEN None ELSE scan
         /\ IF todo = <<>>
            THEN /\ calls' = [calls EXCEPT ![c] = [call EXCEPT !.pc = "session"]]
                 /\ UNCHANGED ops
            ELSE /\ ops' = Append(ops, Head(todo))
                 /\ calls' = [calls EXCEPT ![c] =
                      [call EXCEPT !.pc = "awaitUpdate", !.todo = Tail(todo),
                                   !.awaiting = Len(ops) + 1,
                                   !.issued = @ \cup {Len(ops) + 1}]]
  /\ UNCHANGED <<view, token, profiles, commits, events, profiles0, ledger, disputes>>

\* profile = await getUserProfile(account); profile.session = currentSession;
\* await updateUserProfile(account, profile)
SyncSession(c) ==
  /\ calls[c].handler = "getDisputesForUser"
  /\ calls[c].pc = "session"
  /\ LET profile == [Val(getUserProfile(profiles, Juror)) EXCEPT
                       !.session = Some(calls[c].currentSession)]
     IN  /\ ops' = Append(ops, QueueWriteRequest("updateUserProfile", Juror, None, profile))
         /\ calls' = [calls EXCEPT ![c].pc = "awaitWrite",
                                   ![c].awaiting = Len(ops) + 1,
                                   ![c].issued = @ \cup {Len(ops) + 1}]
  /\ UNCHANGED <<view, scan, token, profiles, commits, events, profiles0, ledger, disputes>>

\* if (txHash): the ledger returned a transaction hash
TxHashAny(txHash) == TRUE

TxHashReturned(txHash) == txHash # None

\* a caller's await submitVotesForDispute(...) as the ledger answers
\* submitVotes with txHash: with a hash the dispute is marked as ruled in
\* the juror's profile and the write awaited, without one the call throws
ApiSubmitVotesForDispute(key, txHash) ==
  /\ Len(calls) < MaxDeliveries
  /\ LET call == [handler |-> "submitVotesForDispute", ev |-> 0, pc |-> "start",
                  awaiting |-> 0, issued |-> {}, wrote |-> {}, error |-> None,
                  result |-> None, newPeriod |-> None, txHash |-> txHash]
     IN  IF TxHashReturned(txHash)
         THEN /\ ops' = Append(ops, QueueWriteRequest("updateDisputeProfile", Juror,
                                                      key, RuledParams))
              /\ calls' = Append(calls, [call EXCEPT !.pc = "awaitWrite",
                                                     !.awaiting = Len(ops) + 1,
                                                     !.issued = {Len(ops) + 1}])
         ELSE /\ calls' = Append(calls, [call EXCEPT
                                           !.pc = "threw",
                                           !.error = Some("unable to submit votes")])
              /\ UNCHANGED ops
  /\ UNCHANGED <<view, scan, token, profiles, commits, events, profiles0, ledger, disputes>>

\* the ledger passes to its next period, and to its next session after the
\* last period, with no listener registered
AdvancePeriod ==
  /\ Quiescent
  /\ ledger.period = "EXECUTE" => ledger.session < MaxSession
  /\ ledger' = [ledger EXCEPT
       !.block = @ + 1,
       !.lastPeriodChange = ledger.block + 1,
       !.period = NextPeriod(@),
       !.session = IF ledger.period = "EXECUTE" THEN @ + 1 ELSE @]
  /\ UNCHANGED <<view, scan, token, profiles, ops, commits, events, calls, profiles0, disputes>>

\* the juror and party A have a profile, the juror's with no session or
\* with the first, tracking the dispute or not; the ledger is in the draw or the voting period of its
\* first session with every dispute raised, the juror drawn in it or not
InitSync ==
  /\ token \in BOOLEAN
  /\ \E d \in InitialDisputes, s \in {None, Some(1)} :
       /\ d[<<Kleros, 0>>] \in {None, Some([EmptyDisputeProfile EXCEPT !.netPNK = Some(2)])}
       /\ profiles = [a \in ProfileOwners |->
                       IF a = Juror
                       THEN Some([disputes |-> d, session |-> s, contracts |-> None])
                       ELSE Some(NewProfile)]
  /\ profiles0 = profiles
  /\ ops = <<>>
  /\ commits = <<>>
  /\ events = <<>>
  /\ calls = <<>>
  /\ disputes = [k \in Keys |-> None]
  /\ view = None
  /\ scan = None
  /\ \E p \in {"DRAW", "VOTE"}, drawn \in [DisputeIds -> {{}, {1}}] :
       ledger = [period |-> p, session |-> 1, block |-> 0, lastPeriodChange |-> 0,
                 dispute |-> [d \in DisputeIds |->
                                Some([NewLedgerDispute(d, 1) EXCEPT !.drawn = drawn[d]])]]

NextSync ==
  \/ QueueStep
  \/ ApiGetDisputesForUser
  \/ SyncScan
  \/ \E c \in DOMAIN calls : SyncUpdate(c) \/ SyncSession(c)
  \/ /\ ledger.period = "VOTE"
     /\ \E txHash \in {None, Some("0xa1")} : ApiSubmitVotesForDispute(<<Kleros, 0>>, txHash)
  \/ /\ \E c \in DOMAIN calls : ~Finished(calls[c])
     /\ ApiUpdateDisputeProfile(<<Kleros, 0>>, NetParams)
  \/ AdvancePeriod
SpecSync == InitSync /\ [][NextSync]_vars

Next == NextQueue \/ NextGateway \/ NextReplay \/ NextRace \/ NextShift \/ NextShiftSeq \/ NextDispute \/ NextDisputeFaulty
          \/ NextView \/ NextScan \/ NextSync
          \/ NextQueueLive
Spec == Init /\ [][Next]_vars

(***************************************************************************)
(* The ordered write queue.                                                *)
(***************************************************************************)
DisputeProfileFields == {"netPNK", "hasRuled", "appealDraws"}
Max(S) == CHOOSE m \in S : \A n \in S : n <= m

\* C1: on one StoreProviderWrapper no queued operation has started while an
\* operation enqueued before it has not settled, so at most one operation
\* (write or read) is executing at any time.
C1_AtMostOneExecuting ==
  /\ \A i, j \in 1..Len(ops) :
       (i < j /\ ops[j].phase # "queued") => Settled(ops[i])
  /\ Cardinality({i \in 1..Len(ops) : Executing(ops[i])}) <= 1

\* an operation executes after an earlier one settled, while a queued read waits
C1_Witness ==
  \E i, j, k \in 1..Len(ops) :
    /\ i < j /\ j < k
    /\ Settled(ops[i]) /\ Executing(ops[j])
    /\ ops[k].phase = "queued" /\ ops[k].kind = "read"

\* C2: the writes of the operations enqueued in order 1..N commit in that
\* order, whatever the time each operation's getBodyFn takes; every write
\* operation that resolved has committed.
C2_CommitsInEnqueueOrder ==
  /\ \A a, b \in 1..Len(commits) : a < b => commits[a] < commits[b]
  /\ \A i \in 1..Len(ops) :
       (ops[i].kind # "read" /\ ops[i].phase = "resolved")
         => \E a \in 1..Len(commits) : commits[a] = i

\* three writes have committed
C2_Witness == Len(commits) >= 3

\* the resolved updateDisputeProfile operations on key that supplied field f
Suppliers(key, f) ==
  {i \in 1..Len(ops) :
     /\ ops[i].kind = "updateDisputeProfile" /\ ops[i].key = key
     /\ ops[i].phase = "resolved" /\ ops[i].params[f] # None}

\* C3: no queued write interleaves between the read and the write of a queued
\* update: while an update's write is in flight the store still holds what its
\* getBodyFn read, and each field of a dispute profile holds the value of the
\* last committed update that supplied it (two updates of different fields
\* both show in the record).
C3_NoLostUpdate ==
  /\ \A i \in 1..Len(ops) :
       (ops[i].kind = "updateDisputeProfile" /\ ops[i].phase = "writing")
         => ops[i].body = DisputeProfileBody(profiles, ops[i].address, ops[i].key,
                                             ops[i].params)
  /\ \A key \in Keys, f \in DisputeProfileFields :
       Suppliers(key, f) # {}
         => /\ profiles[Juror] # None
            /\ Val(profiles[Juror]).disputes[key] # None
            /\ Val(Val(profiles[Juror]).disputes[key])[f]
                 = ops[Max(Suppliers(key, f))].params[f]

\* two updates of one dispute profile, one of hasRuled and then one of netPNK,
\* have committed and the record holds both fields
C3_Witness ==
  \E key \in Keys :
    /\ Suppliers(key, "hasRuled") # {} /\ Suppliers(key, "netPNK") # {}
    /\ Max(Suppliers(key, "hasRuled")) < Max(Suppliers(key, "netPNK"))
    /\ Val(Val(profiles[Juror]).disputes[key]).hasRuled = Some(TRUE)
    /\ Val(Val(profiles[Juror]).disputes[key]).netPNK = NetParams.netPNK

\* C4: a queued operation that fails (getBodyFn rejects or _makeRequest throws)
\* rejects its own promise only: its caller throws, every other caller sees
\* the outcome of its own operation, nothing of a rejected operation is
\* committed, and the operation enqueued next can still start.
C4_FailureIsolated ==
  /\ \A j \in 1..Len(ops) :
       (ops[j].phase = "queued" /\ \A i \in 1..(j - 1) : Settled(ops[i]))
         => ENABLED QueueStart(j)
  /\ \A a \in 1..Len(commits) : ops[commits[a]].phase = "resolved"
  /\ \A c \in 1..Len(calls) :
       calls[c].awaiting # 0 =>
         /\ ops[calls[c].awaiting].phase = "rejected" <=> calls[c].pc = "threw"
         /\ ops[calls[c].awaiting].phase = "resolved" <=> calls[c].pc = "done"

\* an operation was rejected and its caller threw; an operation enqueued after
\* it resolved and its caller returned
C4_Witness ==
  \E c, d \in 1..Len(calls) :
    /\ calls[c].awaiting # 0 /\ calls[d].awaiting # 0
    /\ calls[c].awaiting < calls[d].awaiting
    /\ ops[calls[c].awaiting].phase = "rejected" /\ calls[c].pc = "threw"
    /\ ops[calls[d].awaiting].phase = "resolved" /\ calls[d].pc = "done"

(***************************************************************************)
(* The TokenShift handler.                                                 *)
(***************************************************************************)
\* the netPNK the store holds for key in the juror's profile, as a number
\* (0 when there is no profile, no entry or no netPNK)
StoredNetPNK(store, key) ==
  IF store[Juror] = None THEN 0
  ELSE IF Val(store[Juror]).disputes[key] = None THEN 0
  ELSE IF Val(Val(store[Juror]).disputes[key]).netPNK = None THEN 0
  ELSE Val(Val(Val(store[Juror]).disputes[key]).netPNK)

\* the juror's profile in store tracks key
Tracked(store, key) ==
  store[Juror] # None /\ TracksDispute(Val(store[Juror]), key)

\* the dispute-profile writes a handler run has issued
ProfileWrites(call) ==
  {i \in call.issued : ops[i].kind = "updateDisputeProfile"}

\* handler run c has processed its event: it returned after its write committed
Applied(c, key) ==
  /\ calls[c].handler = "tokensMoved"
  /\ calls[c].pc = "done"
  /\ events[calls[c].ev].account = Juror
  /\ <<Kleros, events[calls[c].ev].disputeID>> = key
  /\ \E i \in ProfileWrites(calls[c]) : ops[i].phase = "resolved"

RECURSIVE SumOfRuns(_, _)
\* the sum of the amounts of the handler runs 1..n that processed an event of key
SumOfRuns(n, key) ==
  IF n = 0 THEN 0
  ELSE SumOfRuns(n - 1, key)
         + (IF Applied(n, key) THEN events[calls[n].ev].amount ELSE 0)

RECURSIVE SumOfEvents(_, _)
\* the sum of the amounts of the events 1..n of key that some run has processed
SumOfEvents(n, key) ==
  IF n = 0 THEN 0
  ELSE SumOfEvents(n - 1, key)
         + (IF \E c \in 1..Len(calls) : calls[c].ev = n /\ Applied(c, key)
            THEN events[n].amount ELSE 0)

\* C6: for a dispute the juror's profile tracks with netPNK = n, when the
\* TokenShift handler has processed, one after another, events of amounts
\* a1..ak addressed to the juror, the stored netPNK is n + a1 + ... + ak.
C6_NetPNKIsSum ==
  \A key \in Keys :
    (Tracked(profiles0, key) /\ Quiescent)
      => StoredNetPNK(profiles, key)
           = StoredNetPNK(profiles0, key) + SumOfRuns(Len(calls), key)

\* three events, of +10, -3 and +5, were processed one after another for a
\* dispute tracked without netPNK, and the store holds 12
C6_Witness ==
  \E key \in Keys :
    /\ Tracked(profiles0, key) /\ StoredNetPNK(profiles0, key) = 0
    /\ Quiescent
    /\ Len(events) = 3 /\ Len(calls) = 3
    /\ \A c \in 1..3 : calls[c].ev = c /\ Applied(c, key)
    /\ <<events[1].amount, events[2].amount, events[3].amount>> = <<10, -3, 5>>
    /\ StoredNetPNK(profiles, key) = 12

\* C7: a run of the TokenShift handler issues a dispute-profile write only for
\* an event whose account is the bound account and whose dispute the account's
\* stored profile tracks, and the write is of that entry; no run creates a
\* dispute profile, and the entries no such event names keep their netPNK.
C7_WritesOnlyTracked ==
  /\ \A c \in 1..Len(calls) : \A i \in ProfileWrites(calls[c]) :
       /\ events[calls[c].ev].account = Juror
       /\ ops[i].address = Juror
       /\ ops[i].key = <<Kleros, events[calls[c].ev].disputeID>>
       /\ Tracked(profiles0, ops[i].key)
  /\ \A key \in Keys :
       /\ ~Tracked(profiles0, key) => ~Tracked(profiles, key)
       /\ (\A e \in 1..Len(events) :
             ~(events[e].account = Juror /\ <<Kleros, events[e].disputeID>> = key))
            => StoredNetPNK(profiles, key) = StoredNetPNK(profiles0, key)

\* the handler has returned from an event of another account and from an
\* event of the bound account whose dispute the stored profile does not
\* track, with no write issued by either
C7_Witness ==
  \E c, d \in 1..Len(calls) :
    /\ calls[c].pc = "done" /\ events[calls[c].ev].account = Other
    /\ calls[c].issued = {}
    /\ calls[d].pc = "done" /\ events[calls[d].ev].account = Juror
    /\ calls[d].issued = {}
    /\ profiles[Juror] # None
    /\ ~Tracked(profiles, <<Kleros, events[calls[d].ev].disputeID>>)

\* C8: each TokenShift event is folded into the stored netPNK once: with
\* nothing in flight the stored netPNK of a tracked dispute is its initial
\* value plus the amounts of the events processed, each counted once however
\* many times it was delivered.
C8_FoldedOnce ==
  \A key \in Keys :
    (Tracked(profiles0, key) /\ Quiescent)
      => StoredNetPNK(profiles, key)
           = StoredNetPNK(profiles0, key) + SumOfEvents(Len(events), key)

\* an event already processed was delivered again and processed again
C8_Witness ==
  \E c, d \in 1..Len(calls), key \in Keys :
    /\ c < d /\ calls[c].ev = calls[d].ev
    /\ Applied(c, key) /\ Applied(d, key)
    /\ Quiescent

(***************************************************************************)
(* The DisputeCreation and NewPeriod handlers.                             *)
(***************************************************************************)
AppealArrays == {"appealCreatedAt", "appealRuledAt", "appealDeadlines"}

\* the appeal array the store holds in field f of the record of key
StoredArray(dstore, key, f) ==
  IF dstore[key] = None THEN <<>>
  ELSE IF Val(dstore[key])[f] = None THEN <<>>
  ELSE Val(Val(dstore[key])[f])

\* the committed writes of dispute records of key issued by runs of handler
WritesOf(handler, key) ==
  {i \in DOMAIN ops :
     /\ ops[i].kind = "updateDispute" /\ ops[i].key = key
     /\ ops[i].phase = "resolved"
     /\ \E c \in DOMAIN calls : calls[c].handler = handler /\ i \in calls[c].issued}

\* the slot that the run issuing write i set
SlotOf(i) == CHOOSE n \in 0..(MaxAppeals + 1) :
               \E c \in DOMAIN calls : <<i, n>> \in calls[c].wrote

\* C5: when the handler has returned from a DisputeCreation event and the same
\* event is delivered again afterwards, the second run returns without
\* issuing a store write, and the store holds the one record of
\* (arbitratorAddress, disputeId), written once.
C5_SecondDeliveryNoWrite ==
  \A c, d \in DOMAIN calls :
    ( /\ c < d
      /\ calls[c].handler = "newDispute" /\ calls[d].handler = "newDispute"
      /\ calls[c].ev = calls[d].ev
      /\ calls[c].pc = "done" /\ Finished(calls[d]) )
      => LET key == <<Kleros, events[calls[c].ev].disputeID>>
         IN  /\ calls[d].pc = "done"
             /\ calls[d].issued = {}
             /\ disputes[key] # None
             /\ Cardinality(WritesOf("newDispute", key)) = 1

\* a DisputeCreation event was handled, its record written, and the same
\* event handled again with no write; the record is the one first written
C5_Witness ==
  \E c, d \in DOMAIN calls :
    /\ c < d
    /\ calls[c].handler = "newDispute" /\ calls[d].handler = "newDispute"
    /\ calls[c].ev = calls[d].ev
    /\ calls[c].pc = "done" /\ calls[c].issued # {}
    /\ calls[d].pc = "done" /\ calls[d].issued = {}
    /\ StoredArray(disputes, <<Kleros, events[calls[c].ev].disputeID>>, "appealCreatedAt")
         = << Some(BlockTimestamp(events[calls[c].ev].blockNumber) * 1000) >>

\* new keeps every slot of old: it is no shorter and every slot set in old is
\* set in new
KeepsSlots(old, new) ==
  /\ Len(new) >= Len(old)
  /\ \A n \in 1..Len(old) : old[n] # None => (n <= Len(new) /\ new[n] # None)

\* C9: whatever the store reads of the handlers give, no step shortens an
\* appeal array of a stored dispute or empties a slot of it that held a value.
C9_ArraysKeepSlots ==
  [][\A key \in Keys, f \in AppealArrays :
       KeepsSlots(StoredArray(disputes, key, f), StoredArray(disputes', key, f))]_vars

\* a committed write set a slot of an appeal array that the store now holds empty
C9_SlotEmptied ==
  \E i \in DOMAIN ops, f \in AppealArrays :
    /\ ops[i].kind = "updateDispute" /\ ops[i].phase = "resolved"
    /\ Val(ops[i].body)[f] # None
    /\ ~KeepsSlots(Val(Val(ops[i].body)[f]), StoredArray(disputes, ops[i].key, f))

\* the committed write of appealDeadlines of key that precedes write i
PreviousDeadlineWrite(i, key) ==
  {j \in WritesOf("deadline", key) :
     j < i /\ \A k \in WritesOf("deadline", key) : k < i => k <= j}

Returned == view # None /\ Val(view).outcome = "returned"
\* the view it returned, the ledger's record of its dispute, and the store
\* data it read
ViewData == Val(Val(view).data)
ViewDispute == Val(ledger.dispute[Val(view).disputeId])
ViewUserData ==
  UserData(profiles, disputes, Val(view).disputeId, Val(view).account,
           Val(view).readFailed)

\* C11: whatever the store holds, the view returned by getDataForDispute has
\* disputeState, disputeStatus, firstSession and numberOfAppeals equal to the
\* values of the ledger's record of the dispute; no stored value takes the
\* place of one of them.
C11_LedgerFieldsFromLedger ==
  Returned =>
    /\ ViewData.disputeState = ViewDispute.state
    /\ ViewData.disputeStatus = ViewDispute.status
    /\ ViewData.firstSession = ViewDispute.firstSession
    /\ ViewData.numberOfAppeals = ViewDispute.numberOfAppeals

\* a view returned for an open dispute of which the store has a record with
\* a status that is none of the ledger's
C11_Witness ==
  /\ Returned
  /\ ViewDispute.state = "OPEN"
  /\ ViewUserData # None
  /\ Val(ViewUserData).status = Some("STORED")
  /\ ViewData.disputeStatus = ViewDispute.status

\* the defaults of the store data in a view
StoreDefaults(v) ==
  /\ v.netPNK = 0
  /\ v.appealCreatedAt = <<>>
  /\ v.appealDeadlines = <<>>
  /\ v.appealRuledAt = <<>>
  /\ \A r \in DOMAIN v.appealJuror : v.appealJuror[r].draws = <<>>

\* C12: when the store has no dispute data for (arbitratorAddress, disputeId,
\* account) and the ledger reads succeed, getDataForDispute returns a view,
\* with netPNK = 0, empty appealCreatedAt, appealDeadlines and appealRuledAt,
\* and no draw in any round.
C12_ViewWithoutStoreData ==
  view # None /\ ViewUserData = None =>
    Returned /\ StoreDefaults(ViewData)

\* a call of getDataForDispute that failed while the store had no data of the
\* dispute for the account
C12_Witness ==
  /\ view # None
  /\ ViewUserData = None
  /\ Val(view).outcome = "threw"
  /\ getUserProfile(profiles, PartyA) = None

\* C13: when the store holds no contract metadata for the dispute's party A,
\* also when party A has no stored profile at all, getDataForDispute returns
\* a view whose description and email are undefined; it does not fail.
C13_ViewWithoutContractData ==
  /\ view # None
  /\ \/ getUserProfile(profiles, PartyA) = None
     \/ getContractByAddress(profiles, PartyA) = None
  => /\ Returned
     /\ ViewData.description = None
     /\ ViewData.email = None

\* a call of getDataForDispute that failed for a party A with no profile,
\* while the store has the data of the dispute for the account
C13_Witness ==
  /\ view # None
  /\ getUserProfile(profiles, PartyA) = None
  /\ ViewUserData # None
  /\ Val(view).outcome = "threw"

\* the entries of the last appeal round in the view
LastJuror == ViewData.appealJuror[ViewData.numberOfAppeals + 1]
LastRulings == ViewData.appealRulings[ViewData.numberOfAppeals + 1]

\* C14: in the view returned by getDataForDispute every appeal round
\* r < numberOfAppeals reports canRule = false, canRepartition = false and
\* canExecute = false; only the round r = numberOfAppeals can report one of
\* them true.  (canRule is None when the view has it undefined.)
C14_EarlierRoundsAllFalse ==
  Returned =>
    \A r \in 1..ViewData.numberOfAppeals :
      /\ ViewData.appealJuror[r].canRule = Some(FALSE)
      /\ ViewData.appealRulings[r].canRepartition = FALSE
      /\ ViewData.appealRulings[r].canExecute = FALSE

\* a view of an appealed dispute whose round 0 has draws in the store and
\* reports canRule undefined, while the last round reports canRule true
C14_Witness ==
  /\ Returned
  /\ ViewData.numberOfAppeals >= 1
  /\ ViewData.appealJuror[1].draws # <<>>
  /\ ViewData.appealJuror[1].canRule = None
  /\ LastJuror.canRule = Some(TRUE)

\* C15: for the last appeal round canRepartition is true if and only if
\* lastSession <= current session and period = Execute and dispute state =
\* Open, for every current session and period, session 0 included.
C15_CanRepartitionIff ==
  Returned =>
    (LastRulings.canRepartition <=>
       /\ ViewData.lastSession <= ledger.session
       /\ ledger.period = "EXECUTE"
       /\ ViewDispute.state = "OPEN")

\* a view read in session 0 and period Execute of an open dispute whose last
\* session is 0, with canRepartition false
C15_Witness ==
  /\ Returned
  /\ ledger.session = 0
  /\ ledger.period = "EXECUTE"
  /\ ViewDispute.state = "OPEN"
  /\ ViewData.lastSession = 0
  /\ LastRulings.canRepartition = FALSE

\* C16: getDataForDispute asks the ledger canRuleDispute only for the last
\* appeal round and only when the store has at least one draw for that round;
\* the last round's canRule is then the ledger's answer, and it is false when
\* the store has no draw for the round.
C16_CanRuleOfLastRound ==
  Returned =>
    /\ Val(view).canRuleCalls \subseteq {ViewData.numberOfAppeals}
    /\ Val(view).canRuleCalls # {} <=> LastJuror.draws # <<>>
    /\ LastJuror.draws # <<>> => LastJuror.canRule = Some(ViewDispute.canRule)
    /\ LastJuror.draws = <<>> => LastJuror.canRule = Some(FALSE)

\* a view whose last round has no draw in the store and reports canRule
\* undefined, the ledger not having been asked
C16_Witness ==
  /\ Returned
  /\ LastJuror.draws = <<>>
  /\ Val(view).canRuleCalls = {}
  /\ LastJuror.canRule = None

(***************************************************************************)
(* The juror scan.                                                         *)
(***************************************************************************)
ScanReturned == scan # None /\ Val(scan).pc = "returned"

\* the ledger answers index i with a read failure or with the unset record
EndsScan(i) ==
  \/ ArbitratorGetDispute(ledger, i) = None
  \/ Val(ArbitratorGetDispute(ledger, i)).arbitratedContract = NULL_ADDRESS
\* the first such index
ScanEnd == CHOOSE i \in 0..(MaxScanId + 1) : EndsScan(i) /\ \A j \in 0..(i - 1) : ~EndsScan(j)

\* C17: getDisputeContractsForJuror terminates whenever the ledger answers
\* some dispute index with the unset record or with a read failure: the scan
\* reads no dispute past the first such index, and the call returns to its
\* caller (it has no other end).
C17_ScanTerminates ==
  /\ [](scan # None => \A k \in DOMAIN Val(scan).read : Val(scan).read[k] <= ScanEnd)
  /\ (scan # None ~> ScanReturned)

\* a scan that has returned after it read the disputes 0 and 1 and the unset
\* record at index 2
C17_Witness ==
  /\ ScanReturned
  /\ ScanEnd = 2
  /\ ArbitratorGetDispute(ledger, 2) # None
  /\ Val(scan).read = <<0, 1, 2>>

\* the contracts the scan is to return: those of the disputes below the
\* first index that ends the scan, of the current session, with a draw of
\* the account, by increasing index
JurorContracts ==
  LET Mine(i) == /\ i - 1 < ScanEnd
                 /\ LET dispute == Val(ArbitratorGetDispute(ledger, i - 1))
                    IN  /\ dispute.firstSession + dispute.numberOfAppeals = ledger.session
                        /\ dispute.drawn # {}
      ids == SelectSeq([i \in 1..(MaxScanId + 1) |-> i], Mine)
  IN  [k \in DOMAIN ids |-> Val(ArbitratorGetDispute(ledger, ids[k] - 1)).arbitratedContract]

\* C18: getDisputeContractsForJuror returns exactly the arbitrable-contract
\* addresses of the disputes below the terminating index whose firstSession +
\* numberOfAppeals is the current session and in which the account has at
\* least one draw, by increasing index; a dispute that follows a skipped
\* one is examined.
C18_ReturnsJurorContracts ==
  ScanReturned => Val(scan).myDisputes = JurorContracts

\* a scan that returned without the contract of a dispute of the session in
\* which the account is drawn, having stopped at a failed read of draws
C18_Witness ==
  /\ ScanReturned
  /\ Val(scan).votesFailedAt # {}
  /\ Len(Val(scan).myDisputes) < Len(JurorContracts)

\* C19: a ledger read failure while the draws of an in-range dispute are
\* checked (getAmountOfJurorsForDispute or isJurorDrawnForDispute) reaches
\* the caller of getDisputeContractsForJuror as an error; the scan does not
\* end silently with a truncated result.
C19_DrawReadFailurePropagated ==
  scan # None /\ Val(scan).votesFailedAt # {} => Val(scan).pc = "threw"

\* a scan that returned the contract of dispute 0 as its whole result after
\* the read of the draws of dispute 1 failed
C19_Witness ==
  /\ ScanReturned
  /\ Val(scan).votesFailedAt = {1}
  /\ Val(scan).myDisputes = <<ContractOf(0)>>

(***************************************************************************)
(* Credentials.                                                            *)
(***************************************************************************)
\* the queued operations that are writes (POST) and reads (GET)
WriteOps == {i \in DOMAIN ops : ops[i].kind # "read"}
ReadOps == {i \in DOMAIN ops : ops[i].kind = "read"}

\* C20: a GET request to the store never fails for lack of a credential; a
\* non-GET request made while no auth token is set fails before any HTTP
\* request is sent (nothing of it is in flight, answered or committed); and
\* the failure of a queued write is the rejection of that write's own
\* promise: who awaits it throws, and nobody throws but for the operation
\* awaited.
C20_CredentialOnlyForWrites ==
  /\ \A i \in ReadOps : ops[i].phase # "rejected"
  /\ ~token =>
       /\ commits = <<>>
       /\ \A i \in WriteOps : ops[i].phase \in {"queued", "reading", "rejected"}
  /\ \A c \in DOMAIN calls :
       /\ calls[c].awaiting \in WriteOps /\ ops[calls[c].awaiting].phase = "rejected"
            => calls[c].pc = "threw"
       /\ calls[c].handler \in {"api", "setUpUserProfile"} /\ calls[c].pc = "threw"
            => ops[calls[c].awaiting].phase = "rejected"

\* with no token set, setUpUserProfile's write (of a body the store would
\* take) is rejected and the queued read after it is answered
C20_Witness ==
  /\ ~token
  /\ \E i \in WriteOps :
       /\ ops[i].kind = "updateUserProfile"
       /\ ops[i].phase = "rejected"
       /\ \E j \in ReadOps : j > i /\ ops[j].phase = "resolved"

(***************************************************************************)
(* The gateway's write operations and the store's responses.               *)
(***************************************************************************)
\* the calls that await the write operation they queued, once it has settled
\* with a response of the given status
AnsweredWith(c, status) ==
  /\ calls[c].awaiting \in WriteOps
  /\ Settled(ops[calls[c].awaiting])
  /\ ops[calls[c].awaiting].status = Some(status)

\* C21: every write operation of the gateway (updateUserProfile,
\* updateDisputeProfile, updateContract, addEvidenceContract, newNotification)
\* whose request the store answers with a status that is neither 2xx nor 401
\* fails with RequestFailed: it does not complete normally.
C21_NonSuccessFails ==
  \A c \in DOMAIN calls, status \in FailureStatuses \ {401} :
    AnsweredWith(c, status) =>
      calls[c].pc = "threw" /\ calls[c].error = Some(REQUEST_FAILED)

\* updateContract answered with 500 throws RequestFailed
C21_Witness ==
  \E c \in DOMAIN calls :
    /\ calls[c].handler = "updateContract"
    /\ AnsweredWith(c, 500)
    /\ calls[c].pc = "threw" /\ calls[c].error = Some(REQUEST_FAILED)

\* getBodyFn of operation i answers in this step, the user having no profile
AnswersWithoutProfile(i) ==
  /\ ops[i].kind \in {"updateContract", "updateDisputeProfile"}
  /\ ops[i].phase = "reading"
  /\ ops'[i].phase # "reading"
  /\ getUserProfile(profiles, ops[i].address) = None

\* C22: updateContract and updateDisputeProfile for a user with no stored
\* profile fail with ProfileNotFound, reported through the operation's own
\* result (the operation rejects with it and who awaits it throws it), and no
\* write request is sent (nothing is in flight or committed).
C22_NoProfileFails ==
  [][\A i \in DOMAIN ops :
       AnswersWithoutProfile(i) =>
         /\ ops'[i].phase = "rejected"
         /\ ops'[i].error = Some(PROFILE_NOT_FOUND)
         /\ commits' = commits
         /\ \A c \in DOMAIN calls :
              calls[c].awaiting = i =>
                calls'[c].pc = "threw" /\ calls'[c].error = Some(PROFILE_NOT_FOUND)]_vars

\* updateContract for a user with no profile has thrown ProfileNotFound and
\* nothing was written
C22_Witness ==
  /\ commits = <<>>
  /\ \E c \in DOMAIN calls :
       /\ calls[c].handler = "updateContract"
       /\ calls[c].pc = "threw" /\ calls[c].error = Some(PROFILE_NOT_FOUND)
       /\ getUserProfile(profiles, ops[calls[c].awaiting].address) = None

\* the record the store holds where operation op writes: the user's profile,
\* the contract entry of the profile, the dispute profile of the key; None
\* when the store has none
StoredRecordOf(store, op) ==
  CASE op.kind = "updateUserProfile" -> store[op.address]
    [] op.kind = "updateContract" ->
         IF store[op.address] = None THEN None ELSE Val(store[op.address]).contracts
    [] op.kind = "updateDisputeProfile" ->
         IF store[op.address] = None THEN None
         ELSE Val(store[op.address]).disputes[op.key]

\* the record with no field set where operation op writes
EmptyRecordOf(op) ==
  CASE op.kind = "updateUserProfile" -> NewProfile
    [] op.kind = "updateContract" -> EmptyContract
    [] op.kind = "updateDisputeProfile" -> EmptyDisputeProfile

MergingOps ==
  {i \in DOMAIN ops :
     /\ ops[i].kind \in {"updateUserProfile", "updateContract", "updateDisputeProfile"}
     /\ ops[i].phase = "writing"}

\* C23: the body written by updateUserProfile, updateContract and
\* updateDisputeProfile is the shallow merge of the stored record (empty when
\* absent) with the supplied fields: each supplied field has the supplied
\* value, each field not supplied has its stored value.
C23_BodyIsShallowMerge ==
  \A i \in MergingOps :
    LET stored == StoredRecordOf(profiles, ops[i])
        body == Val(ops[i].body)
    IN  /\ ops[i].body # None
        /\ DOMAIN body = DOMAIN ops[i].params
        /\ \A f \in DOMAIN body :
             body[f] = IF ops[i].params[f] # None THEN ops[i].params[f]
                       ELSE IF stored = None THEN EmptyRecordOf(ops[i])[f]
                       ELSE Val(stored)[f]

\* a write in flight whose body has a supplied field with a new value and a
\* field that was not supplied and keeps a stored value
C23_Witness ==
  \E i \in MergingOps :
    LET stored == StoredRecordOf(profiles, ops[i])
        body == Val(ops[i].body)
    IN  /\ stored # None
        /\ \E f \in DOMAIN body :
             ops[i].params[f] # None /\ Val(stored)[f] # ops[i].params[f]
        /\ \E f \in DOMAIN body :
             ops[i].params[f] = None /\ Val(stored)[f] # None /\ body[f] = Val(stored)[f]

(***************************************************************************)
(* Reads queued after writes.                                              *)
(***************************************************************************)
\* the write of operation i was taken by the store
Committed(i) == \E n \in DOMAIN commits : commits[n] = i

\* the writes of a profile enqueued before operation j on the address it reads
WritesBefore(j) ==
  {i \in 1..(j - 1) :
     /\ ops[i].address = ops[j].address
     /\ ops[i].kind \in {"updateUserProfile", "updateContract", "updateDisputeProfile"}}

\* the profile read by operation j holds what operation i wrote
Reflects(j, i) ==
  /\ ops[j].body # None
  /\ ops[i].body = StoredRecordOf([a \in ProfileOwners |-> ops[j].body], ops[i])

\* C24 as stated: a read enqueued with queueReadRequest after a write is
\* executed only after that write has committed.
C24_ReadAfterCommit ==
  \A j \in ReadOps :
    ops[j].phase # "queued" => \A i \in WritesBefore(j) : Committed(i)

\* C24, amended: a read enqueued with queueReadRequest after a write is
\* executed only after that write has settled, committed or failed; when writes
\* before it committed, its response reflects the last of them.
C24_ReadAfterSettled ==
  \A j \in ReadOps :
    /\ ops[j].phase # "queued" => \A i \in 1..(j - 1) : Settled(ops[i])
    /\ ops[j].phase = "resolved" =>
         LET committed == {i \in WritesBefore(j) : Committed(i)}
         IN  committed # {} => Reflects(j, Max(committed))

\* the queued read of setUpUserProfile has answered with the profile that the
\* write before it created
C24_Witness ==
  \E j \in ReadOps :
    /\ ops[j].phase = "resolved"
    /\ \E i \in WritesBefore(j) :
         /\ Committed(i) /\ profiles0[ops[j].address] = None
         /\ ops[j].body = ops[i].body /\ ops[j].body # None

(***************************************************************************)
(* setUpUserProfile.                                                       *)
(***************************************************************************)
SetUpCalls == {c \in DOMAIN calls : calls[c].handler = "setUpUserProfile"}

\* C25: setUpUserProfile(address) returns the user's profile record, in the
\* shape getUserProfile returns, both when a profile was stored and when it
\* was created by the queued create-then-read; and it issues a write only when
\* no profile existed.
C25_ReturnsProfileRecord ==
  /\ [](\A c \in SetUpCalls :
          calls[c].pc = "done" =>
            /\ calls[c].result # None
            /\ Val(calls[c].result).shape = "profile"
            /\ Val(calls[c].result).body # None)
  /\ [][\A c \in DOMAIN calls' :
          (c \notin DOMAIN calls /\ calls'[c].handler = "setUpUserProfile"
             /\ calls'[c].issued # {})
            => getUserProfile(profiles, Juror) = None]_vars

\* setUpUserProfile for a stored profile returns it and issues no write
C25_Witness ==
  \E c \in SetUpCalls :
    /\ calls[c].pc = "done" /\ calls[c].issued = {}
    /\ calls[c].result = Some(ProfileResult(profiles[Juror]))
    /\ profiles[Juror] # None

(***************************************************************************)
(* The NewPeriod handlers.                                                 *)
(***************************************************************************)
\* invocation c of the given handler runs in this step
Runs(c, handler) ==
  /\ calls[c].handler = handler
  /\ calls[c].pc = "start"
  /\ calls'[c].pc # "start"

\* the operations enqueued in this step
NewOps == {i \in DOMAIN ops' : i \notin DOMAIN ops}

\* the disputes of the ledger's open-dispute set for the session for which the
\* account's stored dispute list has an entry with the arbitrator's address
OpenAndStored ==
  {d \in OpenDisputes(ledger) :
     /\ profiles[Juror] # None
     /\ Val(profiles[Juror]).disputes[<<Kleros, d>>] # None}

\* the step issues one update of the given array for each dispute of S and
\* nothing else
IssuesExactly(S, field) ==
  /\ {ops'[i].key : i \in NewOps} = {<<Kleros, d>> : d \in S}
  /\ Cardinality(NewOps) = Cardinality(S)
  /\ \A i \in NewOps :
       /\ ops'[i].kind = "updateDispute"
       /\ \A f \in DOMAIN ops'[i].params : ops'[i].params[f] # None <=> f = field

\* C26: when the ledger is in the Appeal period, the ruled-at handler issues
\* an appealRuledAt update for exactly the disputes that are in the ledger's
\* open-dispute set for the session and that the account's stored dispute list
\* has under the arbitrator's address; it issues no write for another dispute.
C26_RuledAtForOpenStored ==
  [][\A c \in DOMAIN calls :
       (Runs(c, "ruledAt") /\ ledger.period = "APPEAL")
         => IssuesExactly(OpenAndStored, "appealRuledAt")]_vars

\* the ruled-at handler has run in the Appeal period for an open dispute of
\* the account's list and issued its update
C26_Witness ==
  \E c \in DOMAIN calls :
    /\ calls[c].handler = "ruledAt" /\ calls[c].pc = "done"
    /\ calls[c].newPeriod = Some("APPEAL")
    /\ \E i \in calls[c].issued :
         /\ ops[i].kind = "updateDispute"
         /\ ops[i].params.appealRuledAt # None
         /\ Val(profiles[Juror]).disputes[ops[i].key] # None

\* C27: the two NewPeriod handlers act on the period the ledger is in when
\* they handle the event: the ruled-at handler writes only if that period is
\* Appeal and the deadline handler only if it is Vote, so a NewPeriod event
\* delivered or replayed while the ledger is in another period causes no write.
C27_PeriodAtHandlingTime ==
  [][\A c \in DOMAIN calls :
       /\ (Runs(c, "ruledAt") /\ ledger.period # "APPEAL") => NewOps = {}
       /\ (Runs(c, "deadline") /\ ledger.period # "VOTE") => NewOps = {}
       /\ (Runs(c, "ruledAt") \/ Runs(c, "deadline")) =>
            UNCHANGED <<profiles, disputes, commits>>]_vars

\* the event of the passage to Appeal is handled again by the ruled-at handler
\* once the ledger has left that period, for a dispute still open and listed,
\* and nothing is issued
C27_Witness ==
  \E c \in DOMAIN calls :
    /\ calls[c].handler = "ruledAt" /\ calls[c].pc = "done"
    /\ events[calls[c].ev].period = "APPEAL"
    /\ calls[c].newPeriod = Some(ledger.period) /\ ledger.period # "APPEAL"
    /\ calls[c].issued = {}
    /\ OpenAndStored # {}
    /\ ~GetDataForDisputeThrows(profiles)

\* the draws the store has recorded for round r of the dispute viewed, none
\* when it has no data, no appealDraws or no entry for the round
RecordedDraws(r) ==
  IF ViewUserData = None THEN <<>>
  ELSE IF Val(ViewUserData).appealDraws = None THEN <<>>
  ELSE LET appealDraws == Val(Val(ViewUserData).appealDraws)
       IN  IF r + 1 > Len(appealDraws) THEN <<>>
           ELSE IF appealDraws[r + 1] = None THEN <<>>
           ELSE Val(appealDraws[r + 1])

\* C28: in the view returned by getDataForDispute, appealJuror and
\* appealRulings each have exactly numberOfAppeals + 1 entries; the entry of
\* round r carries the ledger's current ruling for round r and the ledger's
\* vote counter of round r, and its fee is arbitrationFeePerJuror times the
\* number of draws the store has recorded for round r (0 when it has none).
C28_RoundEntries ==
  Returned =>
    /\ DOMAIN ViewData.appealJuror = 1..(ViewDispute.numberOfAppeals + 1)
    /\ DOMAIN ViewData.appealRulings = 1..(ViewDispute.numberOfAppeals + 1)
    /\ \A r \in 0..ViewDispute.numberOfAppeals :
         /\ ViewData.appealRulings[r + 1].ruling = ViewDispute.rulings[r + 1]
         /\ ViewData.appealRulings[r + 1].voteCounter = ViewDispute.voteCounters[r + 1]
         /\ ViewData.appealJuror[r + 1].fee
              = ViewDispute.arbitrationFeePerJuror * Len(RecordedDraws(r))

\* a view of a dispute appealed twice, with a draw recorded for one round and
\* none for another
C28_Witness ==
  /\ Returned
  /\ ViewDispute.numberOfAppeals = 2
  /\ \E r, q \in 0..2 :
       /\ Len(RecordedDraws(r)) = 1 /\ ViewData.appealJuror[r + 1].fee = FeePerJuror
       /\ Len(RecordedDraws(q)) = 0 /\ ViewData.appealJuror[q + 1].fee = 0
       /\ ViewData.appealRulings[r + 1].ruling # ViewData.appealRulings[q + 1].ruling

(***************************************************************************)
(* What the handlers change in the store.                                  *)
(***************************************************************************)
\* the operation committed in this step and the invocation that issued it
CommittedNow == commits'[Len(commits')]
IssuerOf(i) == CHOOSE c \in DOMAIN calls : i \in calls[c].issued

\* field f of a stored record, None when the store has no record
FieldOf(record, f) == IF record = None THEN None ELSE Val(record)[f]

\* the step changes nothing of the profiles but netPNK of the dispute profile
\* of key, which the juror's profile had
OnlyNetPNKOf(key) ==
  /\ disputes' = disputes
  /\ \A a \in ProfileOwners \ {Juror} : profiles'[a] = profiles[a]
  /\ profiles[Juror] # None /\ profiles'[Juror] # None
  /\ Val(profiles'[Juror]).session = Val(profiles[Juror]).session
  /\ Val(profiles'[Juror]).contracts = Val(profiles[Juror]).contracts
  /\ \A k \in Keys \ {key} :
       Val(profiles'[Juror]).disputes[k] = Val(profiles[Juror]).disputes[k]
  /\ Val(profiles[Juror]).disputes[key] # None
  /\ Val(profiles'[Juror]).disputes[key] # None
  /\ \A f \in DisputeProfileFields \ {"netPNK"} :
       Val(Val(profiles'[Juror]).disputes[key])[f]
         = Val(Val(profiles[Juror]).disputes[key])[f]

\* the step changes nothing of the store but the given array of the dispute
\* record of key
OnlyArrayOf(key, field) ==
  /\ profiles' = profiles
  /\ \A k \in Keys \ {key} : disputes'[k] = disputes[k]
  /\ \A f \in DOMAIN EmptyDispute \ {field} :
       FieldOf(disputes'[key], f) = FieldOf(disputes[key], f)

\* C29: TokenShift handling changes only the netPNK of the matched dispute
\* profile, the ruled-at handler only appealRuledAt and the deadline handler
\* only appealDeadlines of the matched dispute record; every other stored
\* field of that record and every other record is left unchanged.
C29_HandlersChangeOnlyTheirField ==
  [][(profiles' # profiles \/ disputes' # disputes) =>
       LET i == CommittedNow
           call == calls[IssuerOf(i)]
       IN  /\ call.handler = "tokensMoved" =>
                OnlyNetPNKOf(<<Kleros, events[call.ev].disputeID>>)
           /\ call.handler = "ruledAt" => OnlyArrayOf(ops[i].key, "appealRuledAt")
           /\ call.handler = "deadline" => OnlyArrayOf(ops[i].key, "appealDeadlines")]_vars

\* a TokenShift for a tracked dispute has changed netPNK of its dispute
\* profile and nothing else of the juror's profile
C29_Witness ==
  \E c \in DOMAIN calls :
    /\ calls[c].handler = "tokensMoved" /\ calls[c].pc = "done"
    /\ \E i \in calls[c].issued :
         /\ ops[i].kind = "updateDisputeProfile" /\ Committed(i)
         /\ profiles0[Juror] # None /\ profiles[Juror] # None
         /\ Val(profiles[Juror]).disputes[ops[i].key] = ops[i].body
         /\ Val(Val(profiles[Juror]).disputes[ops[i].key]).netPNK
              # Val(Val(profiles0[Juror]).disputes[ops[i].key]).netPNK
         /\ \A k \in Keys \ {ops[i].key} :
              Val(profiles[Juror]).disputes[k] = Val(profiles0[Juror]).disputes[k]

(***************************************************************************)
(* The first delivery of a DisputeCreation event.                          *)
(***************************************************************************)
\* the invocations of the DisputeCreation handler that are the first delivery
\* of their event and have returned or thrown
FirstCreationRuns ==
  {c \in DOMAIN calls :
     /\ calls[c].handler = "newDispute"
     /\ Finished(calls[c])
     /\ \A b \in 1..(c - 1) :
          ~(calls[b].handler = "newDispute" /\ calls[b].ev = calls[c].ev)}

\* invocation c upserted one record of its dispute whose appealCreatedAt has
\* the timestamp of the event's block, in milliseconds, at the slot of
\* numberOfAppeals and, the store having had no record, no other slot set
UpsertedCreatedAt(c) ==
  LET e == events[calls[c].ev]
      key == <<Kleros, e.disputeID>>
  IN  /\ calls[c].pc = "done"
      /\ Cardinality(calls[c].issued) = 1
      /\ \A i \in calls[c].issued :
           /\ ops[i].kind = "updateDispute" /\ ops[i].key = key
           /\ Committed(i)
           /\ LET array == Val(Val(ops[i].body).appealCreatedAt)
                  n == SlotOf(i)
              IN  /\ Len(array) = n + 1
                  /\ array[n + 1] = Some(BlockTimestamp(e.blockNumber) * 1000)
                  /\ \A m \in 1..n : array[m] = None
      /\ disputes[key] # None
      /\ Val(disputes[key]).appealCreatedAt # None

\* C30: on the first delivery of a DisputeCreation event for a dispute with no
\* store record, the handler upserts one record keyed by (arbitrator address,
\* disputeId) whose appealCreatedAt[numberOfAppeals] is the timestamp of the
\* event's block in milliseconds, every other slot being as read from the
\* store.  (Stated for a wrapper with an auth token: without one no write is
\* accepted.)
C30_FirstDeliveryUpserts ==
  token => \A c \in FirstCreationRuns : UpsertedCreatedAt(c)

\* the first delivery of a DisputeCreation event has upserted the record
C30_Witness ==
  /\ token
  /\ \E c \in FirstCreationRuns :
       /\ UpsertedCreatedAt(c)
       /\ StoredArray(disputes, <<Kleros, events[calls[c].ev].disputeID>>,
                      "appealCreatedAt")
            = << Some(BlockTimestamp(events[calls[c].ev].blockNumber) * 1000) >>

(***************************************************************************)
(* Overlapping TokenShift handlers.                                        *)
(***************************************************************************)
\* the runs of the TokenShift handler that processed an event of key
AppliedRuns(key) == {c \in DOMAIN calls : Applied(c, key)}

\* C31: when two invocations of the TokenShift handler for the same account
\* and the same tracked dispute overlap, no shift is lost: once both writes
\* have committed, the stored netPNK is the prior value plus both amounts.
C31_NoShiftLost ==
  \A key \in Keys : \A c, d \in AppliedRuns(key) :
    ( /\ c < d
      /\ AppliedRuns(key) = {c, d}
      /\ Tracked(profiles0, key)
      /\ Quiescent )
      => StoredNetPNK(profiles, key)
           = StoredNetPNK(profiles0, key)
               + events[calls[c].ev].amount + events[calls[d].ev].amount

\* two invocations overlapped: the second computed its netPNK from the profile
\* as it was before the write of the first committed, and both writes have
\* committed
C31_Witness ==
  \E key \in Keys : \E c, d \in AppliedRuns(key) :
    /\ c < d /\ AppliedRuns(key) = {c, d} /\ Quiescent
    /\ Tracked(profiles0, key)
    /\ \E j \in ProfileWrites(calls[d]) :
         ops[j].params.netPNK
           = Some(StoredNetPNK(profiles0, key) + events[calls[d].ev].amount)

(***************************************************************************)
(* Concurrent deliveries of one DisputeCreation event.                     *)
(***************************************************************************)
\* c and d are two deliveries of one DisputeCreation event
SameCreation(c, d) ==
  /\ c # d
  /\ calls[c].handler = "newDispute" /\ calls[d].handler = "newDispute"
  /\ calls[c].ev = calls[d].ev

\* C32: when two deliveries of the same DisputeCreation event are handled
\* concurrently, both existence checks running before either upsert commits,
\* the store ends with one record of (arbitratorAddress, disputeId) whose
\* content is what a single delivery would have produced: the record is there
\* after the first upsert and the second upsert leaves it as it is.
C32_RacingUpsertsAgree ==
  [][commits' # commits =>
       LET j == CommittedNow
           d == IssuerOf(j)
       IN  \A c \in DOMAIN calls :
             SameCreation(c, d) =>
               \A i \in calls[c].issued :
                 Committed(i) =>
                   /\ disputes[ops[i].key] = ops[i].body
                   /\ disputes[ops[i].key] # None
                   /\ disputes' = disputes]_vars

\* both deliveries issued an upsert, both upserts have committed, and the
\* record is the one the first wrote
C32_Witness ==
  \E c, d \in DOMAIN calls :
    /\ SameCreation(c, d)
    /\ calls[c].pc = "done" /\ calls[d].pc = "done"
    /\ \E i \in calls[c].issued, j \in calls[d].issued :
         /\ i < j /\ Committed(i) /\ Committed(j)
         /\ disputes[ops[i].key] = ops[i].body
         /\ StoredArray(disputes, ops[i].key, "appealCreatedAt")
              = << Some(BlockTimestamp(events[calls[c].ev].blockNumber) * 1000) >>

(***************************************************************************)
(* Replays of NewPeriod events in the Appeal period.                       *)
(***************************************************************************)
\* C33: replaying an older NewPeriod event while the ledger is in the Appeal
\* period never changes a recorded ruled-at time: once the handlers are done,
\* appealRuledAt[numberOfAppeals] of each tracked open dispute, when recorded,
\* is the timestamp (in milliseconds) of the block of the event that moved the
\* ledger into the current Appeal period.
C33_RuledAtOfCurrentAppeal ==
  (ledger.period = "APPEAL" /\ Quiescent) =>
    \A d \in OpenAndStored :
      LET array == StoredArray(disputes, <<Kleros, d>>, "appealRuledAt")
          n == Val(ledger.dispute[d]).numberOfAppeals
      IN  ArrayAt(array, n) # None
            => ArrayAt(array, n) = Some(BlockTimestamp(ledger.lastPeriodChange) * 1000)

\* an older NewPeriod event, of the passage to another period, has been
\* handled again by the ruled-at handler while the ledger is in Appeal, and
\* the handler issued an update
C33_Witness ==
  /\ ledger.period = "APPEAL" /\ Quiescent
  /\ \E c \in DOMAIN calls :
       /\ calls[c].handler = "ruledAt" /\ calls[c].pc = "done"
       /\ calls[c].newPeriod = Some("APPEAL")
       /\ events[calls[c].ev].period # "APPEAL"
       /\ events[calls[c].ev].blockNumber < ledger.lastPeriodChange
       /\ \E i \in calls[c].issued : Committed(i)

(***************************************************************************)
(* Failed writes of the period-change handlers.                            *)
(***************************************************************************)
\* the invocations of the ruled-at and the deadline handler
PeriodRuns == {c \in DOMAIN calls : calls[c].handler \in {"ruledAt", "deadline"}}

\* C34: a store write that fails inside a period-change handler
\* (_storeDisputeRuledAtTimestamp or _storeAppealDeadline), as for a missing
\* credential, is propagated as a failure of that handler invocation: the
\* invocation does not return normally.
C34_FailedWritePropagated ==
  \A c \in PeriodRuns :
    (\E i \in calls[c].issued : ops[i].phase = "rejected") => calls[c].pc = "threw"

\* the ruled-at handler issued an update that was rejected for the missing
\* credential
C34_Witness ==
  /\ ~token
  /\ \E c \in PeriodRuns :
       /\ calls[c].handler = "ruledAt"
       /\ \E i \in calls[c].issued :
            ops[i].phase = "rejected" /\ ops[i].error = Some(NO_AUTH_TOKEN)

(***************************************************************************)
(* The synchronisation of the profile's session.                           *)
(***************************************************************************)
SyncCalls == {c \in DOMAIN calls : calls[c].handler = "getDisputesForUser"}

\* the session writes and the store updates call c issued
SessionWrites(c) == {i \in calls[c].issued : ops[i].kind = "updateUserProfile"}
StoreUpdates(c) == calls[c].issued \ SessionWrites(c)

\* call c was made in the voting period with a profile of another session
\* than the ledger's
OutOfSync(c) ==
  calls[c].period = "VOTE" /\ calls[c].profile.session # Some(calls[c].currentSession)

\* call c has run the juror scan, or is running it
Scanned(c) == calls[c].pc = "scan" \/ calls[c].found # None

\* the juror's updates of the disputes of the contracts in found, by call c
UpdatedEach(c, found) ==
  \A n \in DOMAIN found :
    \E i \in StoreUpdates(c) :
      /\ ops[i].kind = "updateDisputeProfile"
      /\ ops[i].address = Juror
      /\ ops[i].key = <<Kleros, found[n] - 1>>
      /\ ops[i].phase = "resolved"

\* C35: getDisputesForUser synchronises a profile at most once per session.
\* A call made in the voting period with a profile whose session differs
\* from the ledger's runs the juror scan, and when it returns it has updated
\* the store for each dispute found and, after those updates, written the
\* current session to the profile.  A call made outside the voting period,
\* or with a profile of the current session, runs no scan and issues no
\* write, and so does a call made after one that synchronised the same
\* session.
C35_SyncOncePerSession ==
  /\ \A c \in SyncCalls :
       /\ ~OutOfSync(c) => ~Scanned(c) /\ calls[c].issued = {}
       /\ OutOfSync(c) => Scanned(c) \/ calls[c].pc = "threw"
       /\ \A s \in SessionWrites(c) :
            /\ ops[s].params.session = Some(calls[c].currentSession)
            /\ calls[c].found # None
            /\ UpdatedEach(c, Val(calls[c].found))
            /\ \A i \in StoreUpdates(c) : i < s /\ ops[i].phase = "resolved"
       /\ (OutOfSync(c) /\ calls[c].pc = "done") =>
            \E s \in SessionWrites(c) :
              /\ ops[s].phase = "resolved"
              /\ Val(ops[s].body).session = Some(calls[c].currentSession)
              /\ Committed(s)
  /\ \A c, d \in SyncCalls :
       ( /\ c < d
         /\ OutOfSync(c)
         /\ calls[c].pc = "done"
         /\ calls[d].currentSession = calls[c].currentSession )
         => ~Scanned(d) /\ calls[d].issued = {}

\* a call found the juror's dispute, updated the store and wrote session 1;
\* the next call in the same session scanned nothing and wrote nothing
C35_Witness ==
  \E c, d \in SyncCalls :
    /\ c < d
    /\ OutOfSync(c)
    /\ calls[c].pc = "done"
    /\ calls[c].found = Some(<<ContractOf(0)>>)
    /\ Val(profiles[Juror]).session = Some(calls[c].currentSession)
    /\ calls[d].currentSession = calls[c].currentSession
    /\ calls[d].period = "VOTE"
    /\ calls[d].pc = "done"
    /\ calls[d].found = None

\* C36: the session write of getDisputesForUser changes only the session of
\* the profile: in the step in which it commits, the disputes and contracts
\* the store holds for the juror, among them those another queued write
\* stored after getDisputesForUser read the profile, stay as they are.
C36_SessionWriteKeepsOthers ==
  [][(commits' # commits /\ \E c \in SyncCalls : CommittedNow \in SessionWrites(c))
       => /\ Val(profiles'[Juror]).disputes = Val(profiles[Juror]).disputes
          /\ Val(profiles'[Juror]).contracts = Val(profiles[Juror]).contracts]_vars

\* the session write of a call has committed after the write of another
\* caller that was queued before it and stored a dispute profile the call
\* had not read; the store no longer holds that dispute profile
C36_Witness ==
  \E c \in SyncCalls : \E s \in SessionWrites(c) : \E w \in 1..(s - 1) :
    /\ w \notin calls[c].issued
    /\ ops[w].kind = "updateDisputeProfile"
    /\ ops[w].address = Juror
    /\ Committed(w)
    /\ Committed(s)
    /\ ops[s].params.disputes[ops[w].key] # ops[w].body
    /\ Val(profiles[Juror]).disputes[ops[w].key] # ops[w].body

(***************************************************************************)
(* The vote of the juror.                                                  *)
(***************************************************************************)
VoteCalls == {c \in DOMAIN calls : calls[c].handler = "submitVotesForDispute"}

\* C37: submitVotesForDispute marks the dispute as ruled in the store only
\* after the vote submission on the ledger has returned a transaction hash:
\* every write it issues marks the dispute as ruled and belongs to a call
\* that got a hash, and a call that got a hash issues the write; a call
\* that got no hash has thrown an error and issued no write.
C37_RuledOnlyAfterHash ==
  \A c \in VoteCalls :
    /\ calls[c].txHash = None =>
         /\ calls[c].pc = "threw"
         /\ calls[c].error = Some("unable to submit votes")
         /\ calls[c].issued = {}
    /\ calls[c].txHash # None => Cardinality(calls[c].issued) = 1
    /\ \A i \in calls[c].issued :
         /\ calls[c].txHash # None
         /\ ops[i].kind = "updateDisputeProfile"
         /\ ops[i].params.hasRuled = Some(TRUE)

\* one call got no hash and threw without a write, another got a hash and
\* returned after the store marked the dispute as ruled
C37_Witness ==
  \E c, d \in VoteCalls :
    /\ calls[c].txHash = None
    /\ calls[c].pc = "threw"
    /\ calls[c].issued = {}
    /\ calls[d].txHash # None
    /\ calls[d].pc = "done"
    /\ \E i \in calls[d].issued :
         /\ Committed(i)
         /\ Val(ops[i].body).hasRuled = Some(TRUE)
         /\ Val(Val(profiles[Juror]).disputes[ops[i].key]).hasRuled = Some(TRUE)

(***************************************************************************)
(* Progress of the queue.                                                  *)
(***************************************************************************)
\* C38: the write queue never deadlocks: when every request to the store is
\* eventually answered, every operation that is enqueued eventually settles,
\* resolved or rejected.
C38_EveryOperationSettles ==
  \A i \in 1..MaxOps : (i \in DOMAIN ops) ~> (i \in DOMAIN ops /\ Settled(ops[i]))

\* the request of an operation was answered with 401 and its promise is
\* pending, with a later operation waiting in the queue behind it
C38_Witness ==
  \E i, j \in DOMAIN ops :
    /\ i < j
    /\ ops[i].phase = "answered"
    /\ ops[i].status = Some(401)
    /\ ops[j].phase = "queued"

====
